---- MODULE Spec2Model ----
(***************************************************************************)
(* Model of the multi-agent RAG workflow of                                *)
(* src/src/agents/multi_agent_system.py (class MultiAgentRAGSystem).       *)
(*                                                                         *)
(* Texts are sequences of one-character strings, so that str.lower() and   *)
(* the substring test `in` are computed character by character.            *)
(***************************************************************************)
EXTENDS Integers, Sequences, FiniteSets, TLC

(***************************************************************************)
(* Bounds of the exploration.                                              *)
(***************************************************************************)
\* Largest max_iterations value the engine is constructed with (0..MaxIter).
MaxIter == 3
\* Longest list of search results the context block is built from.
MaxResults == 6
\* Number of HTTP requests the service handles.
SvcMaxRequests == 2
\* Number of threads that resolve the RAG service for a request.
DepMaxThreads == 3
\* Largest max_iterations value of an engine shared by concurrent runs.
ConcMaxIter == 2

(***************************************************************************)
(* Text helpers (Python str semantics).                                    *)
(***************************************************************************)
UpperChars == <<"A","B","C","D","E","F","G","H","I","J","K","L","M",
                "N","O","P","Q","R","S","T","U","V","W","X","Y","Z">>
LowerChars == <<"a","b","c","d","e","f","g","h","i","j","k","l","m",
                "n","o","p","q","r","s","t","u","v","w","x","y","z">>

\* str.lower() on one character
LowerChar(c) ==
    IF \E i \in 1..Len(UpperChars) : UpperChars[i] = c
    THEN LowerChars[CHOOSE i \in 1..Len(UpperChars) : UpperChars[i] = c]
    ELSE c

\* str.lower()
Lower(s) == [i \in 1..Len(s) |-> LowerChar(s[i])]

\* Python `sub in s`
Contains(sub, s) ==
    \E i \in 1..(Len(s) - Len(sub) + 1) : SubSeq(s, i, i + Len(sub) - 1) = sub

\* the literals the decision functions look for
StrDirect == <<"d","i","r","e","c","t">>
StrSufficient == <<"s","u","f","f","i","c","i","e","n","t">>
StrTrue == <<"t","r","u","e">>
EmptyStr == <<>>

(***************************************************************************)
(* Inputs: the replies of the external collaborators.                      *)
(***************************************************************************)
\* "route: direct, reasoning: general knowledge"
RouterReplyDirect ==
    <<"r","o","u","t","e",":"," ","d","i","r","e","c","t",","," ",
      "r","e","a","s","o","n","i","n","g",":"," ",
      "g","e","n","e","r","a","l"," ","k","n","o","w","l","e","d","g","e">>
\* "route: query"
RouterReplyQuery == <<"r","o","u","t","e",":"," ","q","u","e","r","y">>
\* "Route: DiRECT"
RouterReplyMixed == <<"R","o","u","t","e",":"," ","D","i","R","E","C","T">>
\* "direc t" (malformed)
RouterReplyNear == <<"d","i","r","e","c"," ","t">>

RouterReplies ==
    {RouterReplyDirect, RouterReplyQuery, RouterReplyMixed, RouterReplyNear, EmptyStr}

\* "sufficient: true"
EvalReplyTrue ==
    <<"s","u","f","f","i","c","i","e","n","t",":"," ","t","r","u","e">>
\* "sufficient: false"
EvalReplyFalse ==
    <<"s","u","f","f","i","c","i","e","n","t",":"," ","f","a","l","s","e">>
\* "TRUE, Sufficient"
EvalReplyMixed ==
    <<"T","R","U","E",","," ","S","u","f","f","i","c","i","e","n","t">>
\* "true" (only one of the two substrings)
EvalReplyOnlyTrue == <<"t","r","u","e">>

EvalReplies ==
    {EvalReplyTrue, EvalReplyFalse, EvalReplyMixed, EvalReplyOnlyTrue, EmptyStr}

\* "See [1]"
AnswerText == <<"S","e","e"," ","[","1","]">>
AnswerReplies == {AnswerText, EmptyStr}

\* "q?" and "Doc X"
QueryA == <<"q","?">>
QueryB == <<"D","o","c"," ","X">>
Queries == {QueryA, QueryB}

\* SearchResult objects as the retrieval function returns them
\* (src/src/domain/models.py SearchResult); scores are in hundredths.
ResultA == [chunk_id |-> [uuid |-> "c1"], document_id |-> [uuid |-> "d1"],
            content |-> <<"a","l","f","a">>, score |-> 91, metadata |-> "m1"]
ResultB == [chunk_id |-> [uuid |-> "c2"], document_id |-> [uuid |-> "d1"],
            content |-> <<"b","e","t","a">>, score |-> 78, metadata |-> "m2"]
SearchOutcomes == {<<>>, <<ResultA>>, <<ResultA, ResultB>>}

\* exceptions the external collaborators raise
LLMFailures == {"RateLimitError", "APITimeoutError"}
EmbeddingFailures == {"EmbeddingError"}
StoreFailures == {"ConnectionError"}

(***************************************************************************)
(* State.                                                                  *)
(***************************************************************************)
VARIABLES
    max_iterations,   \* self.max_iterations of the engine
    pc,               \* position of the run: "idle", the node to execute next,
                      \* "END", "returned" or "aborted"
    state,            \* the GraphState of the current run
    result,           \* what execute() returned
    error,            \* the exception that left execute(), or "none"
    log,              \* records written through logger during the current run
    trace,            \* nodes executed so far in the current run, in order
    searchCalls,      \* calls of vector_search_func made by the current run
    llmCalls,         \* calls of llm.ainvoke made by the current run
    inputs,           \* what the external calls of the current run returned
    reused,           \* TRUE once execute() was called again on the engine
    runs,             \* concurrent executions: the call frames of execute()
    frames,           \* concurrent executions: the GraphState objects
    fn,               \* argument and value of a function applied on its own
    svc,              \* RAGService and its HTTP endpoint: the request in flight
    container,        \* the dependency container (module globals of dependencies.py)
    indexing          \* IndexingService, its repositories and the call in flight

engineVars == <<max_iterations, pc, state, result, error, log, trace,
                searchCalls, llmCalls, inputs, reused>>
concVars == <<runs, frames>>
vars == <<max_iterations, pc, state, result, error, log, trace,
          searchCalls, llmCalls, inputs, reused, runs, frames, fn, svc, container, indexing>>

\* query: the text execute() was called with; router, evals, answer: the
\* replies received, in order; last_search: the list the latest retrieval
\* call returned; searches_returned: how many retrieval calls returned;
\* search_args: the texts the retrieval function was called with;
\* raised: the exceptions that the language model or the embedding call
\* raised, in order; store_raised: what the vector store raised in the
\* latest retriever pass ("none" when it returned); store_failed: whether
\* it raised in some pass; store_logged: what the repository's own logger
\* recorded in the latest pass (log holds the engine's logger only)
NoInputs == [query |-> <<>>, router |-> <<>>, evals |-> <<>>, answer |-> <<>>,
             last_search |-> <<>>, searches_returned |-> 0,
             search_args |-> {}, raised |-> <<>>,
             store_raised |-> "none", store_failed |-> FALSE,
             store_logged |-> <<>>]

NoState == [none |-> TRUE]
NoResult == [none |-> TRUE]

\* dict helpers
EmptyDict == <<>>
DictPut(d, k, v) == [x \in (DOMAIN d) \cup {k} |-> IF x = k THEN v ELSE d[x]]
DictGet(d, k, default) == IF k \in DOMAIN d THEN d[k] ELSE default

LogRec(level, msg) == <<level, msg>>
WarnMaxIterations == LogRec("WARNING", "Max iterations reached")

(***************************************************************************)
(* The graph built by _build_graph.                                        *)
(***************************************************************************)
EntryPoint == "router_agent"
\* variant: the two router branches wired the other way round
RouterBranchesSwapped == [query |-> "response_agent", direct |-> "query_agent"]
RouterBranches == [query |-> "query_agent", direct |-> "response_agent"]
\* variant: the retriever is wired straight to the response node
QueryEdgeSkipsEvaluation == "response_agent"
QueryEdge == "evaluation_agent"
EvaluationBranches == [refine |-> "query_agent", respond |-> "response_agent"]
ResponseEdge == "END"

(***************************************************************************)
(* The nodes: the state each returns for the reply of its awaited call.    *)
(***************************************************************************)
\* variant: the router keeps its reply out of the message list
router_agent_unlogged(st, response) ==
    [st EXCEPT !.current_agent = "router",
               !.metadata = DictPut(@, "router_decision", response)]

router_agent(st, response) ==
    [st EXCEPT !.messages = Append(@, response),
               !.current_agent = "router",
               !.metadata = DictPut(@, "router_decision", response)]

\* variant: the iteration counter advanced by two
query_agent_skips(st, search_results) ==
    [st EXCEPT !.search_results =
                   [i \in 1..Len(search_results) |->
                       [content |-> search_results[i].content,
                        score |-> search_results[i].score,
                        metadata |-> search_results[i].metadata]],
               !.iteration = st.iteration + 2,
               !.current_agent = "query"]

query_agent(st, search_results) ==
    [st EXCEPT !.search_results =
                   [i \in 1..Len(search_results) |->
                       [content |-> search_results[i].content,
                        score |-> search_results[i].score,
                        metadata |-> search_results[i].metadata]],
               !.iteration = st.iteration + 1,
               !.current_agent = "query"]

\* variant: a refinement pass searches with the evaluator's reply appended
query_agent_search_arg_refined(st) ==
    IF "evaluation" \in DOMAIN st.metadata
    THEN st.query \o st.metadata["evaluation"]
    ELSE st.query

\* the text query_agent passes to vector_search_func
query_agent_search_arg(st) == st.query

(***************************************************************************)
(* The retrieval function: RAGService._vector_search over                  *)
(* QdrantRepository.search.                                                *)
(***************************************************************************)
\* what client.search did: returned hits, or raised
ClientHits(hits) == [raised |-> "none", hits |-> hits]
ClientRaises(exc) == [raised |-> exc, hits |-> <<>>]

\* QdrantRepository.search: every exception is caught, logged and turned
\* into the empty list
qdrant_search(client) ==
    IF client.raised # "none"
    THEN [results |-> <<>>,
          logged |-> <<<<"ERROR", "Error searching chunks">>>>]
    ELSE [results |-> client.hits,
          logged |-> <<<<"INFO", "Found similar chunks">>>>]

\* variant: the evaluator also stores its reply as the answer
evaluation_agent_answers(st, response) ==
    [st EXCEPT !.messages = Append(@, response),
               !.current_agent = "evaluation",
               !.answer = response,
               !.metadata = DictPut(@, "evaluation", response)]

\* variant: the evaluator stores its reply in a new metadata dict
evaluation_agent_new_metadata(st, response) ==
    [st EXCEPT !.messages = Append(@, response),
               !.current_agent = "evaluation",
               !.metadata = DictPut(EmptyDict, "evaluation", response)]

evaluation_agent(st, response) ==
    [st EXCEPT !.messages = Append(@, response),
               !.current_agent = "evaluation",
               !.metadata = DictPut(@, "evaluation", response)]

\* variant: the message list is rebuilt from the final reply
response_agent_rewrites(st, response) ==
    [st EXCEPT !.answer = response,
               !.messages = <<response>>,
               !.current_agent = "response"]

\* variant: current_agent is left as the previous node set it
response_agent_keeps_stage(st, response) ==
    [st EXCEPT !.answer = response,
               !.messages = Append(@, response)]

response_agent(st, response) ==
    [st EXCEPT !.answer = response,
               !.messages = Append(@, response),
               !.current_agent = "response"]

(***************************************************************************)
(* Decision functions of the conditional edges.                            *)
(***************************************************************************)
\* variant: the comparison made without lower()
_route_decision_cased(st) ==
    LET decision == DictGet(st.metadata, "router_decision", EmptyStr)
    IN IF Contains(StrDirect, decision) THEN "direct" ELSE "query"

_route_decision(st) ==
    LET decision == DictGet(st.metadata, "router_decision", EmptyStr)
    IN IF Contains(StrDirect, Lower(decision)) THEN "direct" ELSE "query"

\* variant: the limit check written with > instead of >=
_evaluation_decision_strict(st, maxit) ==
    IF st.iteration > maxit
    THEN [branch |-> "respond", logged |-> <<WarnMaxIterations>>]
    ELSE LET evaluation == DictGet(st.metadata, "evaluation", EmptyStr)
         IN IF Contains(StrSufficient, Lower(evaluation))
               /\ Contains(StrTrue, Lower(evaluation))
            THEN [branch |-> "respond", logged |-> <<>>]
            ELSE [branch |-> "refine", logged |-> <<>>]

\* variant: the reply inspected before the limit
_evaluation_decision_reply_first(st, maxit) ==
    LET evaluation == DictGet(st.metadata, "evaluation", EmptyStr)
    IN IF Contains(StrSufficient, Lower(evaluation))
          /\ Contains(StrTrue, Lower(evaluation))
       THEN [branch |-> "respond", logged |-> <<>>]
       ELSE IF st.iteration >= maxit
            THEN [branch |-> "respond", logged |-> <<WarnMaxIterations>>]
            ELSE [branch |-> "refine", logged |-> <<>>]

\* variant: one of the two substrings is enough
_evaluation_decision_either(st, maxit) ==
    IF st.iteration >= maxit
    THEN [branch |-> "respond", logged |-> <<WarnMaxIterations>>]
    ELSE LET evaluation == DictGet(st.metadata, "evaluation", EmptyStr)
         IN IF Contains(StrSufficient, Lower(evaluation))
               \/ Contains(StrTrue, Lower(evaluation))
            THEN [branch |-> "respond", logged |-> <<>>]
            ELSE [branch |-> "refine", logged |-> <<>>]

\* variant: the limit check fires two passes late
_evaluation_decision_late(st, maxit) ==
    IF st.iteration >= maxit + 2
    THEN [branch |-> "respond", logged |-> <<WarnMaxIterations>>]
    ELSE LET evaluation == DictGet(st.metadata, "evaluation", EmptyStr)
         IN IF Contains(StrSufficient, Lower(evaluation))
               /\ Contains(StrTrue, Lower(evaluation))
            THEN [branch |-> "respond", logged |-> <<>>]
            ELSE [branch |-> "refine", logged |-> <<>>]

\* variant: the limit branch taken without the warning
_evaluation_decision_silent(st, maxit) ==
    IF st.iteration >= maxit
    THEN [branch |-> "respond", logged |-> <<>>]
    ELSE LET evaluation == DictGet(st.metadata, "evaluation", EmptyStr)
         IN IF Contains(StrSufficient, Lower(evaluation))
               /\ Contains(StrTrue, Lower(evaluation))
            THEN [branch |-> "respond", logged |-> <<>>]
            ELSE [branch |-> "refine", logged |-> <<>>]

\* the branch taken and the records the function writes to the log
_evaluation_decision(st, maxit) ==
    IF st.iteration >= maxit
    THEN [branch |-> "respond", logged |-> <<WarnMaxIterations>>]
    ELSE LET evaluation == DictGet(st.metadata, "evaluation", EmptyStr)
         IN IF Contains(StrSufficient, Lower(evaluation))
               /\ Contains(StrTrue, Lower(evaluation))
            THEN [branch |-> "respond", logged |-> <<>>]
            ELSE [branch |-> "refine", logged |-> <<>>]

(***************************************************************************)
(* Operations of one run at a time.                                        *)
(***************************************************************************)
RunIds == {1, 2}
IdleRun == [pc |-> "idle", query |-> <<>>, ins |-> <<>>,
            result |-> NoResult, error |-> "none", overlapped |-> FALSE]
NoRuns == [r \in RunIds |-> IdleRun]
NoFrames == [r \in RunIds |-> NoState]
NoFn == [op |-> "none"]
NoSvc == [pc |-> "none"]
NoContainer == [pc |-> "none"]
NoIndexing == [pc |-> "none"]

\* the state execute() hands to graph.ainvoke
initial_state(query) ==
    [messages |-> <<>>, query |-> query, search_results |-> <<>>,
     answer |-> EmptyStr, current_agent |-> "",
     metadata |-> EmptyDict, iteration |-> 0]

EngineInit ==
    /\ pc = "idle"
    /\ state = NoState
    /\ result = NoResult
    /\ error = "none"
    /\ log = <<>>
    /\ trace = <<>>
    /\ searchCalls = 0
    /\ llmCalls = 0
    /\ inputs = NoInputs
    /\ reused = FALSE

Init ==
    /\ max_iterations \in (-1)..MaxIter
    /\ EngineInit
    /\ runs = NoRuns
    /\ frames = NoFrames
    /\ fn = NoFn
    /\ svc = NoSvc
    /\ container = NoContainer
    /\ indexing = NoIndexing

\* variant: the state object is kept on the engine and reused by the next call
ExecuteKeepsState(query) ==
    /\ pc \in {"idle", "returned", "aborted"}
    /\ state' = IF pc = "idle" THEN initial_state(query)
                ELSE [state EXCEPT !.query = query, !.answer = EmptyStr,
                                   !.iteration = 0, !.current_agent = ""]
    /\ pc' = EntryPoint
    /\ result' = NoResult
    /\ error' = "none"
    /\ log' = <<LogRec("INFO", "Executing multi-agent workflow")>>
    /\ trace' = <<>>
    /\ searchCalls' = 0
    /\ llmCalls' = 0
    /\ inputs' = [NoInputs EXCEPT !.query = query]
    /\ reused' = (pc # "idle")
    /\ UNCHANGED <<max_iterations, runs, frames, fn, svc, container, indexing>>

\* execute(), up to the call of graph.ainvoke
Execute(query) ==
    /\ pc \in {"idle", "returned", "aborted"}
    /\ state' = initial_state(query)
    /\ pc' = EntryPoint
    /\ result' = NoResult
    /\ error' = "none"
    /\ log' = <<LogRec("INFO", "Executing multi-agent workflow")>>
    /\ trace' = <<>>
    /\ searchCalls' = 0
    /\ llmCalls' = 0
    /\ inputs' = [NoInputs EXCEPT !.query = query]
    /\ reused' = (pc # "idle")
    /\ UNCHANGED <<max_iterations, runs, frames, fn, svc, container, indexing>>

\* variant: the node catches the exception and the graph ends with the
\* state reached so far
AbortReturnsPartial(node, dep, exc, entryLog) ==
    /\ pc' = "END"
    /\ error' = "none"
    /\ log' = Append(log, entryLog)
    /\ trace' = Append(trace, node)
    /\ inputs' = [inputs EXCEPT !.raised = Append(@, [dep |-> dep, exc |-> exc])]
    /\ UNCHANGED <<max_iterations, state, result, reused, runs, frames, fn, svc, container, indexing>>

\* a node whose awaited call raised: the exception leaves ainvoke and execute
Abort(node, dep, exc, entryLog) ==
    /\ pc' = "aborted"
    /\ error' = exc
    /\ log' = Append(log, entryLog)
    /\ trace' = Append(trace, node)
    /\ inputs' = [inputs EXCEPT !.raised = Append(@, [dep |-> dep, exc |-> exc])]
    /\ UNCHANGED <<max_iterations, state, result, reused, runs, frames, fn, svc, container, indexing>>

\* router_agent followed by the conditional edge _route_decision
RouterAgent(response) ==
    /\ pc = "router_agent"
    /\ state' = router_agent(state, response)
    /\ pc' = RouterBranches[_route_decision(state')]
    /\ log' = log \o <<LogRec("INFO", "Router Agent: Analyzing query"),
                       LogRec("INFO", "Router decision")>>
    /\ trace' = Append(trace, "router_agent")
    /\ llmCalls' = llmCalls + 1
    /\ inputs' = [inputs EXCEPT !.router = Append(@, response)]
    /\ UNCHANGED <<max_iterations, result, error, searchCalls, reused, runs, frames, fn, svc, container, indexing>>

RouterAgentFails(exc) ==
    /\ pc = "router_agent"
    /\ Abort("router_agent", "llm", exc, LogRec("INFO", "Router Agent: Analyzing query"))
    /\ llmCalls' = llmCalls + 1
    /\ UNCHANGED searchCalls

\* query_agent followed by the edge to evaluation_agent; the vector store
\* returned search_results
QueryAgent(search_results) ==
    /\ pc = "query_agent"
    /\ LET found == qdrant_search(ClientHits(search_results))
       IN /\ state' = query_agent(state, found.results)
          /\ log' = log \o <<LogRec("INFO", "Query Agent: Retrieving documents"),
                             LogRec("INFO", "Query Agent: Retrieved results")>>
          /\ inputs' = [inputs EXCEPT
                           !.last_search = <<found.results>>,
                           !.searches_returned = @ + 1,
                           !.search_args = @ \cup {query_agent_search_arg(state)},
                           !.store_raised = "none",
                           !.store_logged = found.logged]
    /\ pc' = QueryEdge
    /\ trace' = Append(trace, "query_agent")
    /\ searchCalls' = searchCalls + 1
    /\ UNCHANGED <<max_iterations, result, error, llmCalls, reused, runs, frames, fn, svc, container, indexing>>

\* query_agent when the vector store raised inside QdrantRepository.search
QueryAgentStoreFails(exc) ==
    /\ pc = "query_agent"
    /\ LET found == qdrant_search(ClientRaises(exc))
       IN /\ state' = query_agent(state, found.results)
          /\ log' = log \o <<LogRec("INFO", "Query Agent: Retrieving documents"),
                             LogRec("INFO", "Query Agent: Retrieved results")>>
          /\ inputs' = [inputs EXCEPT
                           !.last_search = <<found.results>>,
                           !.searches_returned = @ + 1,
                           !.search_args = @ \cup {query_agent_search_arg(state)},
                           !.store_raised = exc,
                           !.store_failed = TRUE,
                           !.store_logged = found.logged]
    /\ pc' = QueryEdge
    /\ trace' = Append(trace, "query_agent")
    /\ searchCalls' = searchCalls + 1
    /\ UNCHANGED <<max_iterations, result, error, llmCalls, reused, runs, frames, fn, svc, container, indexing>>

\* query_agent when embedding the query raised inside _vector_search
QueryAgentFails(exc) ==
    /\ pc = "query_agent"
    /\ pc' = "aborted"
    /\ error' = exc
    /\ log' = Append(log, LogRec("INFO", "Query Agent: Retrieving documents"))
    /\ trace' = Append(trace, "query_agent")
    /\ inputs' = [inputs EXCEPT
                     !.raised = Append(@, [dep |-> "embedding", exc |-> exc]),
                     !.search_args = @ \cup {query_agent_search_arg(state)}]
    /\ searchCalls' = searchCalls + 1
    /\ UNCHANGED <<max_iterations, state, result, llmCalls, reused, runs, frames, fn, svc, container, indexing>>

\* evaluation_agent followed by the conditional edge _evaluation_decision
EvaluationAgent(response) ==
    /\ pc = "evaluation_agent"
    /\ state' = evaluation_agent(state, response)
    /\ LET decision == _evaluation_decision(state', max_iterations)
       IN /\ pc' = EvaluationBranches[decision.branch]
          /\ log' = log \o <<LogRec("INFO", "Evaluation Agent: Assessing results"),
                             LogRec("INFO", "Evaluation")>>
                        \o decision.logged
    /\ trace' = Append(trace, "evaluation_agent")
    /\ llmCalls' = llmCalls + 1
    /\ inputs' = [inputs EXCEPT !.evals = Append(@, response)]
    /\ UNCHANGED <<max_iterations, result, error, searchCalls, reused, runs, frames, fn, svc, container, indexing>>

EvaluationAgentFails(exc) ==
    /\ pc = "evaluation_agent"
    /\ Abort("evaluation_agent", "llm", exc, LogRec("INFO", "Evaluation Agent: Assessing results"))
    /\ llmCalls' = llmCalls + 1
    /\ UNCHANGED searchCalls

\* response_agent followed by the edge to END
ResponseAgent(response) ==
    /\ pc = "response_agent"
    /\ state' = response_agent(state, response)
    /\ pc' = ResponseEdge
    /\ log' = log \o <<LogRec("INFO", "Response Agent: Generating final answer"),
                       LogRec("INFO", "Response Agent: Generated final answer")>>
    /\ trace' = Append(trace, "response_agent")
    /\ llmCalls' = llmCalls + 1
    /\ inputs' = [inputs EXCEPT !.answer = Append(@, response)]
    /\ UNCHANGED <<max_iterations, result, error, searchCalls, reused, runs, frames, fn, svc, container, indexing>>

ResponseAgentFails(exc) ==
    /\ pc = "response_agent"
    /\ Abort("response_agent", "llm", exc, LogRec("INFO", "Response Agent: Generating final answer"))
    /\ llmCalls' = llmCalls + 1
    /\ UNCHANGED searchCalls

\* execute(), after graph.ainvoke returned the final state
ExecuteReturn ==
    /\ pc = "END"
    /\ result' = [answer |-> state.answer,
                  sources |-> state.search_results,
                  metadata |-> state.metadata,
                  iterations |-> state.iteration]
    /\ pc' = "returned"
    /\ UNCHANGED <<max_iterations, state, error, log, trace, searchCalls,
                   llmCalls, inputs, reused, runs, frames, fn, svc, container, indexing>>

\* the steps of a run between the call of execute() and its end
RunStep ==
    \/ \E r \in RouterReplies : RouterAgent(r)
    \/ \E e \in LLMFailures : RouterAgentFails(e)
    \/ \E rs \in SearchOutcomes : QueryAgent(rs)
    \/ \E e \in StoreFailures : QueryAgentStoreFails(e)
    \/ \E e \in EmbeddingFailures : QueryAgentFails(e)
    \/ \E r \in EvalReplies : EvaluationAgent(r)
    \/ \E e \in LLMFailures : EvaluationAgentFails(e)
    \/ \E r \in AnswerReplies : ResponseAgent(r)
    \/ \E e \in LLMFailures : ResponseAgentFails(e)
    \/ ExecuteReturn

Next ==
    \/ \E q \in Queries : Execute(q)
    \/ \E r \in RouterReplies : RouterAgent(r)
    \/ \E e \in LLMFailures : RouterAgentFails(e)
    \/ \E rs \in SearchOutcomes : QueryAgent(rs)
    \/ \E e \in StoreFailures : QueryAgentStoreFails(e)
    \/ \E e \in EmbeddingFailures : QueryAgentFails(e)
    \/ \E r \in EvalReplies : EvaluationAgent(r)
    \/ \E e \in LLMFailures : EvaluationAgentFails(e)
    \/ \E r \in AnswerReplies : ResponseAgent(r)
    \/ \E e \in LLMFailures : ResponseAgentFails(e)
    \/ ExecuteReturn

Spec == Init /\ [][Next]_vars

\* the event loop keeps resuming the run's coroutine until it returns or raises
FairSpec == Init /\ [][Next]_vars /\ WF_vars(RunStep)

TypeOK ==
    /\ max_iterations \in (-1)..MaxIter
    /\ pc \in {"idle", "router_agent", "query_agent", "evaluation_agent",
               "response_agent", "END", "returned", "aborted"}
    /\ searchCalls \in Nat
    /\ llmCalls \in Nat
    /\ reused \in BOOLEAN

(***************************************************************************)
(* The context block of the Synthesizer prompt (response_agent, the join   *)
(* over search_results[:5]), as the text the f-string produces.            *)
(* Scores are hundredths: 91 stands for the float 0.91.                    *)
(***************************************************************************)
ContextTopK == 5

Digits == <<"0", "1", "2", "3", "4", "5", "6", "7", "8", "9">>

RECURSIVE IntToStr(_)
\* str() of a natural number
IntToStr(n) ==
    IF n < 10 THEN <<Digits[n + 1]>>
    ELSE IntToStr(n \div 10) \o <<Digits[(n % 10) + 1]>>

\* repr() of a float of two decimals
ScoreStr(h) ==
    IntToStr(h \div 100) \o <<".">> \o <<Digits[((h % 100) \div 10) + 1]>> \o
    (IF h % 10 = 0 THEN <<>> ELSE <<Digits[(h % 10) + 1]>>)

\* search_results[:k]
Slice(list, k) == IF Len(list) <= k THEN list ELSE SubSeq(list, 1, k)

\* f"[Source {i+1}] (Score: {r['score']})\n{r['content']}", i being 0-based
SourceEntry(i, r) ==
    <<"[", "S", "o", "u", "r", "c", "e", " ">> \o IntToStr(i + 1) \o
    <<"]", " ", "(", "S", "c", "o", "r", "e", ":", " ">> \o ScoreStr(r.score) \o
    <<")", "\n">> \o r.content

RECURSIVE Join(_, _)
\* sep.join(parts)
Join(sep, parts) ==
    IF parts = <<>> THEN <<>>
    ELSE IF Len(parts) = 1 THEN parts[1]
    ELSE parts[1] \o sep \o Join(sep, Tail(parts))

\* variant: the context is built from every result
response_context_all(search_results) ==
    Join(<<"\n", "\n">>,
         [i \in 1..Len(search_results) |-> SourceEntry(i - 1, search_results[i])])

response_context(search_results) ==
    LET top == Slice(search_results, ContextTopK)
    IN Join(<<"\n", "\n">>, [i \in 1..Len(top) |-> SourceEntry(i - 1, top[i])])

\* the evaluator's summary of the results (evaluation_agent, the join over
\* search_results[:3] with r['content'][:200])
SummaryTopK == 3
SummaryChars == 200

\* variant: the content of a result is not cut
SummaryEntryWhole(i, r) ==
    <<"R", "e", "s", "u", "l", "t", " ">> \o IntToStr(i + 1) \o
    <<" ", "(", "s", "c", "o", "r", "e", ":", " ">> \o ScoreStr(r.score) \o
    <<")", ":", " ">> \o r.content \o <<".", ".", ".">>

\* f"Result {i+1} (score: {r['score']}): {r['content'][:200]}...", i 0-based
SummaryEntry(i, r) ==
    <<"R", "e", "s", "u", "l", "t", " ">> \o IntToStr(i + 1) \o
    <<" ", "(", "s", "c", "o", "r", "e", ":", " ">> \o ScoreStr(r.score) \o
    <<")", ":", " ">> \o Slice(r.content, SummaryChars) \o <<".", ".", ".">>

results_summary(search_results) ==
    LET top == Slice(search_results, SummaryTopK)
    IN Join(<<"\n">>, [i \in 1..Len(top) |-> SummaryEntry(i - 1, top[i])])

\* a text of n characters that repeats word
Cycle(word, n) == [i \in 1..n |-> word[((i - 1) % Len(word)) + 1]]

\* the entries search_results can hold, as query_agent stores them; two
\* chunks are long: one of exactly 200 characters and one of 203
ResultContents == <<<<"a", "l", "f", "a">>,
                    <<"b", "r", "a", "v", "o">>,
                    Cycle(<<"c", "h", "a", "r", "l", "i", "e", "-">>, 203),
                    <<"d", "e", "l", "t", "a">>,
                    <<"e", "c", "h", "o">>,
                    Cycle(<<"f", "o", "x", "t", "r", "o", "t", "+">>, 200),
                    <<"g", "o", "l", "f">>,
                    <<"h", "o", "t", "e", "l">>>>
ResultScores == <<91, 78, 100, 50, 5, 0, 66, 42>>
StoredResult(k) ==
    [content |-> ResultContents[k], score |-> ResultScores[k], metadata |-> "m"]
ResultPool == {StoredResult(k) : k \in 1..MaxResults}
IsInjective(list) == \A i, j \in 1..Len(list) : list[i] = list[j] => i = j
ResultLists ==
    {list \in UNION {[1..n -> ResultPool] : n \in 0..MaxResults} : IsInjective(list)}

FnInit ==
    /\ max_iterations = MaxIter
    /\ EngineInit
    /\ runs = NoRuns
    /\ frames = NoFrames
    /\ fn \in {[op |-> "ready", search_results |-> list,
                 context |-> <<>>, summary |-> <<>>] : list \in ResultLists}
    /\ svc = NoSvc
    /\ container = NoContainer
    /\ indexing = NoIndexing

\* response_agent builds the context block from state["search_results"]
ResponseContext ==
    /\ fn.op = "ready"
    /\ fn' = [fn EXCEPT !.op = "response_context",
                        !.context = response_context(fn.search_results)]
    /\ UNCHANGED <<engineVars, concVars, svc, container, indexing>>

\* evaluation_agent builds the summary from state["search_results"]
ResultsSummary ==
    /\ fn.op = "ready"
    /\ fn' = [fn EXCEPT !.op = "results_summary",
                        !.summary = results_summary(fn.search_results)]
    /\ UNCHANGED <<engineVars, concVars, svc, container, indexing>>

FnNext == ResponseContext \/ ResultsSummary
FnSpec == FnInit /\ [][FnNext]_vars

(***************************************************************************)
(* Concurrent executions: execute() is a coroutine, several calls on one   *)
(* engine are in flight at once and the event loop switches between them   *)
(* at their awaits (one per node: the LLM call or the retrieval call).     *)
(* runs[r] is the call frame of run r, frames holds the GraphState         *)
(* objects.                                                                *)
(***************************************************************************)
ConcRouterReplies == {RouterReplyDirect, RouterReplyQuery}
ConcEvalReplies == {EvalReplyTrue, EvalReplyFalse}
ConcSearchOutcomes == {<<ResultA>>, <<ResultA, ResultB>>}
ConcAnswerReplies == {AnswerText, EmptyStr}
ConcFailures == {"RateLimitError"}
\* the concurrent calls carry distinct queries: run 1 asks "q?", run 2 "Doc X"
ConcQueries == <<QueryA, QueryB>>
NodeNames == {"router_agent", "query_agent", "evaluation_agent", "response_agent"}

\* the replies a node's awaited call can deliver
NodeReplies(node) ==
    CASE node = "router_agent" -> ConcRouterReplies
      [] node = "query_agent" -> ConcSearchOutcomes
      [] node = "evaluation_agent" -> ConcEvalReplies
      [] node = "response_agent" -> ConcAnswerReplies

\* variant: the engine keeps the state of the run in one object of its own
frame_of_shared(r) == 1
\* the GraphState a run works on: the dict its execute() call built
frame_of(r) == r

\* the graph runs the node and follows its outgoing edge
NodeStep(node, st, reply, maxit) ==
    CASE node = "router_agent" ->
            LET new == router_agent(st, reply)
            IN [pc |-> RouterBranches[_route_decision(new)], state |-> new]
      [] node = "query_agent" ->
            [pc |-> QueryEdge, state |-> query_agent(st, reply)]
      [] node = "evaluation_agent" ->
            LET new == evaluation_agent(st, reply)
            IN [pc |-> EvaluationBranches[_evaluation_decision(new, maxit).branch],
                state |-> new]
      [] node = "response_agent" ->
            [pc |-> ResponseEdge, state |-> response_agent(st, reply)]

OthersInFlight(r) == \E o \in RunIds \ {r} : runs[o].pc \in NodeNames

ConcInit ==
    /\ max_iterations \in 0..ConcMaxIter
    /\ EngineInit
    /\ runs = NoRuns
    /\ frames = NoFrames
    /\ fn = NoFn
    /\ svc = NoSvc
    /\ container = NoContainer
    /\ indexing = NoIndexing

ConcExecute(r) ==
    /\ runs[r].pc = "idle"
    /\ frames' = [frames EXCEPT ![frame_of(r)] = initial_state(ConcQueries[r])]
    /\ runs' = [runs EXCEPT ![r].pc = EntryPoint, ![r].query = ConcQueries[r]]
    /\ UNCHANGED <<engineVars, max_iterations, fn, svc, container, indexing>>

\* run r is resumed with the reply of the call its node awaits
ConcNode(r, reply) ==
    /\ runs[r].pc \in NodeNames
    /\ reply \in NodeReplies(runs[r].pc)
    /\ LET step == NodeStep(runs[r].pc, frames[frame_of(r)], reply, max_iterations)
       IN /\ frames' = [frames EXCEPT ![frame_of(r)] = step.state]
          /\ runs' = [runs EXCEPT ![r].pc = step.pc,
                                  ![r].ins = Append(@, reply),
                                  ![r].overlapped = @ \/ OthersInFlight(r)]
    /\ UNCHANGED <<engineVars, max_iterations, fn, svc, container, indexing>>

\* the awaited call of run r raises
ConcNodeFails(r, exc) ==
    /\ runs[r].pc \in NodeNames
    /\ runs' = [runs EXCEPT ![r].pc = "aborted", ![r].error = exc]
    /\ UNCHANGED <<engineVars, max_iterations, frames, fn, svc, container, indexing>>

ConcExecuteReturn(r) ==
    /\ runs[r].pc = "END"
    /\ LET final_state == frames[frame_of(r)]
       IN runs' = [runs EXCEPT ![r].pc = "returned",
                               ![r].result = [answer |-> final_state.answer,
                                              sources |-> final_state.search_results,
                                              metadata |-> final_state.metadata,
                                              iterations |-> final_state.iteration]]
    /\ UNCHANGED <<engineVars, max_iterations, frames, fn, svc, container, indexing>>

ConcNext ==
    \/ \E r \in RunIds : ConcExecute(r)
    \/ \E r \in RunIds :
          \E reply \in ConcRouterReplies \cup ConcSearchOutcomes
                          \cup ConcEvalReplies \cup ConcAnswerReplies :
             ConcNode(r, reply)
    \/ \E r \in RunIds, e \in ConcFailures : ConcNodeFails(r, e)
    \/ \E r \in RunIds : ConcExecuteReturn(r)

ConcSpec == ConcInit /\ [][ConcNext]_vars

(***************************************************************************)
(* RAGService.query behind the HTTP endpoints of rag_controller.  One      *)
(* request is handled at a time; every await of the handler is a step.     *)
(***************************************************************************)
ResultC == [chunk_id |-> [uuid |-> "c3"], document_id |-> [uuid |-> "d2"],
            content |-> <<"g","a","m","a">>, score |-> 72, metadata |-> "m3"]
\* the collection, best score first
StoreContents == {<<>>, <<ResultA>>, <<ResultA, ResultB>>, <<ResultA, ResultB, ResultC>>}
\* the config dict RAGService is constructed with (settings.rag_top_k,
\* settings.rag_score_threshold, settings.agent_max_iterations)
ServiceConfigs == {[top_k |-> 5, score_threshold |-> 70, max_iterations |-> 10],
                   [top_k |-> 2, score_threshold |-> 70, max_iterations |-> 1]}
\* QueryRequest: top_k in 1..20, score_threshold in 0.0..1.0
RequestLimits == {[top_k |-> 5, score_threshold |-> 70],
                  [top_k |-> 1, score_threshold |-> 90]}
SvcRequests ==
    {[query |-> query, top_k |-> limits.top_k,
      score_threshold |-> limits.score_threshold, use_agent |-> agent] :
        query \in Queries, limits \in RequestLimits, agent \in BOOLEAN}
SvcFailures == {"APITimeoutError"}

\* str(uuid), UUID(text) and isinstance(value, str)
str_of(u) == [str |-> u.uuid]
UUID(text) == [uuid |-> text.str]
is_str(value) == "str" \in DOMAIN value

\* client.search(limit=, score_threshold=): the best hits of the collection
client_search(store, limit, score_threshold) ==
    Slice(SelectSeq(store, LAMBDA hit : hit.score >= score_threshold), limit)

\* _vector_search: the limit and the threshold are those of self.config
_vector_search(store, config, client_raised) ==
    qdrant_search(IF client_raised = "none"
                  THEN ClientHits(client_search(store, config.top_k,
                                                config.score_threshold))
                  ELSE ClientRaises(client_raised)).results

\* the sources of the path without agents
simple_sources(search_results) ==
    [i \in 1..Len(search_results) |->
        [chunk_id |-> str_of(search_results[i].chunk_id),
         document_id |-> str_of(search_results[i].document_id),
         content |-> search_results[i].content,
         score |-> search_results[i].score,
         metadata |-> search_results[i].metadata]]

RECURSIVE run_graph(_, _, _, _)
\* graph.ainvoke: the nodes run until END, each with the reply of its call;
\* left says how many replies were not asked for
run_graph(node, st, replies, maxit) ==
    IF node \notin NodeNames \/ replies = <<>>
    THEN [pc |-> node, state |-> st, left |-> Len(replies)]
    ELSE LET step == NodeStep(node, st, Head(replies), maxit)
         IN run_graph(step.pc, step.state, Tail(replies), maxit)

\* what the calls of a workflow run return, in the order they are made
AgentScripts(found) ==
    {<<RouterReplyDirect, AnswerText>>,
     <<RouterReplyQuery, found, EvalReplyTrue, AnswerText>>,
     <<RouterReplyQuery, found, EvalReplyFalse, found, EvalReplyTrue, AnswerText>>}

\* agent_system.execute(query) for a run that completes
execute(query, replies, maxit) ==
    LET final == run_graph(EntryPoint, initial_state(query), replies, maxit)
    IN [completed |-> final.pc = "END" /\ final.left = 0,
        answer |-> final.state.answer,
        sources |-> final.state.search_results,
        metadata |-> final.state.metadata,
        iterations |-> final.state.iteration]

\* SearchResultDTO(chunk_id=..., document_id=..., ...) of one source
SearchResultDTO(s) ==
    [chunk_id |-> IF is_str(s.chunk_id) THEN UUID(s.chunk_id) ELSE s.chunk_id,
     document_id |-> IF is_str(s.document_id) THEN UUID(s.document_id)
                     ELSE s.document_id,
     content |-> s.content, score |-> s.score, metadata |-> s.metadata]

\* QueryResponse(...): s["chunk_id"] raises KeyError for a source without it
QueryResponse(query_id, request, answer, sources, agent_type, metadata) ==
    IF \E i \in 1..Len(sources) :
          ~({"chunk_id", "document_id"} \subseteq DOMAIN sources[i])
    THEN [raised |-> "KeyError"]
    ELSE [raised |-> "none",
          query_id |-> query_id,
          query |-> request.query,
          answer |-> answer,
          sources |-> [i \in 1..Len(sources) |-> SearchResultDTO(sources[i])],
          agent_type |-> agent_type,
          metadata |-> metadata]

\* variant: the workflow is used whatever the request says
use_agent_always(request) == TRUE
\* if request.use_agent
use_agent(request) == request.use_agent

NoCall == [saves |-> 0, searches |-> 0, llm_calls |-> 0, stages |-> 0,
           search_results |-> <<>>, llm_reply |-> <<>>, workflow |-> NoResult,
           raised |-> "none", returned |-> NoResult, http |-> NoResult]

SvcInit ==
    /\ EngineInit
    /\ runs = NoRuns
    /\ frames = NoFrames
    /\ fn = NoFn
    /\ container = NoContainer
    /\ indexing = NoIndexing
    /\ svc \in {[pc |-> "idle", store |-> store, config |-> config,
                 saved |-> <<>>, requests |-> 0, endpoint |-> "none",
                 previous |-> <<>>,
                 request |-> NoResult, call |-> NoCall] :
                   store \in StoreContents, config \in ServiceConfigs}
    /\ max_iterations = svc.config.max_iterations

SvcUnchanged == UNCHANGED <<engineVars, concVars, fn, container, indexing>>

\* POST /api/v1/rag/query reaches RAGService.query
QueryRequested(request) ==
    /\ svc.pc \in {"idle", "responded"}
    /\ svc.requests < SvcMaxRequests
    /\ svc' = [svc EXCEPT !.pc = "create", !.endpoint = "query",
                          !.requests = @ + 1,
                          !.previous = IF svc.pc = "idle" THEN <<>>
                                       ELSE <<svc.endpoint, svc.call.http.status>>,
                          !.request = request, !.call = NoCall]
    /\ SvcUnchanged

\* variant: the except clause removes the record it saved before raising
Raise_rolls_back(exc) ==
    svc' = [svc EXCEPT !.pc = "raised", !.call.raised = exc,
                       !.saved = SubSeq(@, 1, Len(@) - svc.call.saves)]

\* the service's except clause logs and raises again
Raise(exc) == svc' = [svc EXCEPT !.pc = "raised", !.call.raised = exc]

\* await self.query_repo.create(query_domain)
CreateReturns ==
    /\ svc.pc = "create"
    /\ svc' = [svc EXCEPT !.saved = Append(@, svc.request.query),
                          !.call.saves = @ + 1,
                          !.pc = IF use_agent(svc.request) THEN "execute"
                                 ELSE "vector_search"]
    /\ SvcUnchanged

CreateFails(exc) ==
    /\ svc.pc = "create"
    /\ Raise(exc)
    /\ SvcUnchanged

\* result = await self.agent_system.execute(request.query), then the response
ExecuteReturns(replies, client_raised) ==
    /\ svc.pc = "execute"
    /\ replies \in AgentScripts(_vector_search(svc.store, svc.config, client_raised))
    /\ LET run == execute(svc.request.query, replies, max_iterations)
           response == QueryResponse(Len(svc.saved), svc.request, run.answer,
                                     run.sources, "router", run.metadata)
       IN /\ run.completed
          /\ svc' = [svc EXCEPT
                        !.call.stages = Len(replies),
                        !.call.searches = run.iterations,
                        !.call.llm_calls = Len(replies) - run.iterations,
                        !.call.workflow = [answer |-> run.answer,
                                           sources |-> run.sources,
                                           metadata |-> run.metadata,
                                           iterations |-> run.iterations],
                        !.call.raised = response.raised,
                        !.call.returned = IF response.raised = "none"
                                          THEN response ELSE NoResult,
                        !.pc = IF response.raised = "none" THEN "returned"
                               ELSE "raised"]
    /\ SvcUnchanged

ExecuteFails(exc) ==
    /\ svc.pc = "execute"
    /\ Raise(exc)
    /\ SvcUnchanged

\* search_results = await self._vector_search(request.query)
VectorSearchReturns(client_raised) ==
    /\ svc.pc = "vector_search"
    /\ svc' = [svc EXCEPT
                  !.call.search_results =
                      _vector_search(svc.store, svc.config, client_raised),
                  !.call.searches = @ + 1,
                  !.pc = "llm"]
    /\ SvcUnchanged

\* the embedding call of _vector_search raises
VectorSearchFails(exc) ==
    /\ svc.pc = "vector_search"
    /\ Raise(exc)
    /\ SvcUnchanged

\* response = await self.llm.ainvoke(prompt), then the response
LLMReturns(reply) ==
    /\ svc.pc = "llm"
    /\ LET response == QueryResponse(Len(svc.saved), svc.request, reply,
                                     simple_sources(svc.call.search_results),
                                     "query", EmptyDict)
       IN svc' = [svc EXCEPT
                     !.call.llm_calls = @ + 1,
                     !.call.llm_reply = <<reply>>,
                     !.call.raised = response.raised,
                     !.call.returned = IF response.raised = "none"
                                       THEN response ELSE NoResult,
                     !.pc = IF response.raised = "none" THEN "returned"
                            ELSE "raised"]
    /\ SvcUnchanged

LLMFails(exc) ==
    /\ svc.pc = "llm"
    /\ Raise(exc)
    /\ SvcUnchanged

\* variant: a failure is answered with status 200 and the error text
query_endpoint_swallows(call) ==
    IF call.raised = "none"
    THEN [status |-> 200, body |-> call.returned]
    ELSE [status |-> 200, body |-> [detail |-> call.raised]]

\* the endpoint query(): the response, or HTTPException(500) for any Exception
query_endpoint(call) ==
    IF call.raised = "none"
    THEN [status |-> 200, body |-> call.returned]
    ELSE [status |-> 500, body |-> [detail |-> call.raised]]

QueryResponds ==
    /\ svc.pc \in {"returned", "raised"}
    /\ svc.endpoint = "query"
    /\ svc' = [svc EXCEPT !.pc = "responded",
                          !.call.http = query_endpoint(svc.call)]
    /\ SvcUnchanged

\* GET /api/v1/rag/query/{query_id} reaches get_query_by_id
GetQueryRequested(query_id) ==
    /\ svc.pc \in {"idle", "responded"}
    /\ svc' = [svc EXCEPT !.pc = "get_by_id", !.endpoint = "get_query",
                          !.previous = IF svc.pc = "idle" THEN <<>>
                                       ELSE <<svc.endpoint, svc.call.http.status>>,
                          !.request = [query_id |-> query_id], !.call = NoCall]
    /\ SvcUnchanged

\* variant: the 404 raised inside the try block is caught as any Exception
get_query_endpoint_generic(found, raised) ==
    IF raised # "none" THEN [status |-> 500, body |-> [detail |-> raised]]
    ELSE IF found = <<>> THEN [status |-> 500, body |-> [detail |-> "not found"]]
    ELSE [status |-> 200, body |-> found[1]]

\* the endpoint get_query(): 404 for None, the HTTPException is raised again
get_query_endpoint(found, raised) ==
    IF raised # "none" THEN [status |-> 500, body |-> [detail |-> raised]]
    ELSE IF found = <<>> THEN [status |-> 404, body |-> [detail |-> "not found"]]
    ELSE [status |-> 200, body |-> found[1]]

\* self.queries.get(query_id): the stored query or None
get_by_id(saved, query_id) ==
    IF query_id \in 1..Len(saved) THEN <<saved[query_id]>> ELSE <<>>

\* MockQueryRepository.get_recent_queries: the stored queries, the newest
\* first (they are stored in the order of their created_at), cut at limit
get_recent_queries(saved, limit) ==
    Slice([i \in 1..Len(saved) |-> saved[Len(saved) + 1 - i]], limit)

GetQueryResponds ==
    /\ svc.pc = "get_by_id"
    /\ svc' = [svc EXCEPT
                  !.pc = "responded",
                  !.call.http = get_query_endpoint(
                                    get_by_id(svc.saved, svc.request.query_id), "none")]
    /\ SvcUnchanged

GetQueryFails(exc) ==
    /\ svc.pc = "get_by_id"
    /\ svc' = [svc EXCEPT !.pc = "responded", !.call.raised = exc,
                          !.call.http = get_query_endpoint(<<>>, exc)]
    /\ SvcUnchanged

SvcNext ==
    \/ \E request \in SvcRequests : QueryRequested(request)
    \/ CreateReturns
    \/ \E e \in SvcFailures : CreateFails(e)
    \/ \E found \in StoreContents, raised \in {"none"} \cup StoreFailures :
          \E replies \in AgentScripts(found) : ExecuteReturns(replies, raised)
    \/ \E e \in SvcFailures : ExecuteFails(e)
    \/ \E raised \in {"none"} \cup StoreFailures : VectorSearchReturns(raised)
    \/ \E e \in EmbeddingFailures : VectorSearchFails(e)
    \/ \E reply \in AnswerReplies : LLMReturns(reply)
    \/ \E e \in SvcFailures : LLMFails(e)
    \/ QueryResponds
    \/ \E id \in 1..(SvcMaxRequests + 1) : GetQueryRequested(id)
    \/ GetQueryResponds
    \/ \E e \in SvcFailures : GetQueryFails(e)

SvcSpec == SvcInit /\ [][SvcNext]_vars

(***************************************************************************)
(* dependencies.py: the module global _rag_service and                     *)
(* get_rag_service_instance.  The function is called by                    *)
(* initialize_services during the startup of the application (thread 0)    *)
(* and, once the application serves, by the dependency get_rag_service of  *)
(* every request, which runs in a pool of threads.                         *)
(***************************************************************************)
StartupThread == 0
RequestThreads == 1..DepMaxThreads
Threads == {StartupThread} \cup RequestThreads
\* settings.agent_max_iterations
SettingsMaxIterations == {0, 3, 10}
None == [none |-> TRUE]
\* the k-th RAGService object built in the process
Instance(k) == [instance |-> k]
IdleThread == [pc |-> "idle", got |-> None]

\* variant: the service is built on every call
needs_construction_always(global) == TRUE
\* if _rag_service is None
needs_construction(global) == global = None

DepInit ==
    /\ max_iterations = MaxIter
    /\ EngineInit
    /\ runs = NoRuns
    /\ frames = NoFrames
    /\ fn = NoFn
    /\ svc = NoSvc
    /\ indexing = NoIndexing
    /\ container \in {[_rag_service |-> None, settings |-> value,
                       constructed |-> <<>>, serving |-> FALSE,
                       threads |-> [t \in Threads |-> IdleThread]] :
                         value \in SettingsMaxIterations}

DepUnchanged == UNCHANGED <<engineVars, concVars, fn, svc, indexing>>

\* get_rag_service_instance() is entered: by the startup, or for a request
\* once the application serves
Call(t) ==
    /\ container.threads[t].pc = "idle"
    /\ IF t = StartupThread THEN ~container.serving /\ container.constructed = <<>>
       ELSE container.serving
    /\ container' = [container EXCEPT !.threads[t] = [pc |-> "check", got |-> None]]
    /\ DepUnchanged

\* the test of the global
Check(t) ==
    /\ container.threads[t].pc = "check"
    /\ container' = [container EXCEPT
                        !.threads[t].pc =
                            IF needs_construction(container._rag_service)
                            THEN "construct" ELSE "return"]
    /\ DepUnchanged

\* _rag_service = RAGService(..., config={..., "max_iterations":
\* settings.agent_max_iterations}); its __init__ builds the engine
Construct(t) ==
    /\ container.threads[t].pc = "construct"
    /\ container' = [container EXCEPT
                        !.constructed =
                            Append(@, [max_iterations |-> container.settings,
                                       engine_max_iterations |-> container.settings]),
                        !._rag_service = Instance(Len(container.constructed) + 1),
                        !.threads[t].pc = "return"]
    /\ DepUnchanged

\* a constructor raises: the call fails, and with it the startup
ConstructFails(t) ==
    /\ container.threads[t].pc = "construct"
    /\ container' = [container EXCEPT !.threads[t].pc = "raised"]
    /\ DepUnchanged

\* return _rag_service; the startup is over and the application serves
Return(t) ==
    /\ container.threads[t].pc = "return"
    /\ container' = [container EXCEPT
                        !.threads[t] = [pc |-> "idle", got |-> container._rag_service],
                        !.serving = @ \/ t = StartupThread]
    /\ DepUnchanged

DepNext ==
    \E t \in Threads :
        Call(t) \/ Check(t) \/ Construct(t) \/ ConstructFails(t) \/ Return(t)

DepSpec == DepInit /\ [][DepNext]_vars

\* ---------------------------------------------------------------------------
\* RAGService._calculate_confidence (src/services/rag_service.py:145-152).
\* The scores are Python floats, IEEE-754 binary64, and the mean is computed
\* in that arithmetic.  A natural number of any size is the sequence of its
\* digits in base 2^15, lowest first, with no zero above the highest one; a
\* float is a sign and a magnitude counted in units of 2^-75 (five digits
\* below the point), which holds every value the function meets exactly.

MaxSources == 4

RECURSIVE Pow2(_)
Pow2(k) == IF k = 0 THEN 1 ELSE 2 * Pow2(k - 1)

Base == Pow2(15)

RECURSIVE Trim(_)
Trim(a) ==
  IF a = <<>> THEN <<>>
  ELSE IF a[Len(a)] # 0 THEN a
  ELSE Trim(SubSeq(a, 1, Len(a) - 1))

Digit(a, i) == IF i <= Len(a) THEN a[i] ELSE 0

Rest(a) == IF a = <<>> THEN <<>> ELSE Tail(a)

RECURSIVE BAddFrom(_, _, _)
BAddFrom(a, b, carry) ==
  IF a = <<>> /\ b = <<>> THEN (IF carry = 0 THEN <<>> ELSE <<carry>>)
  ELSE LET t == Digit(a, 1) + Digit(b, 1) + carry
       IN  <<t % Base>> \o BAddFrom(Rest(a), Rest(b), t \div Base)

BAdd(a, b) == BAddFrom(a, b, 0)

RECURSIVE BSubFrom(_, _, _)
BSubFrom(a, b, borrow) ==
  IF a = <<>> THEN <<>>
  ELSE LET t == Digit(a, 1) - Digit(b, 1) - borrow
       IN  <<(t + Base) % Base>> \o BSubFrom(Rest(a), Rest(b), IF t < 0 THEN 1 ELSE 0)

\* a - b for a >= b
BSub(a, b) == Trim(BSubFrom(a, b, 0))

BLess(a, b) ==
  \/ Len(a) < Len(b)
  \/ /\ Len(a) = Len(b)
     /\ \E i \in 1..Len(a) :
          /\ a[i] < b[i]
          /\ \A j \in (i + 1)..Len(a) : a[j] = b[j]

\* a * m for a small m
RECURSIVE BMulFrom(_, _, _)
BMulFrom(a, m, carry) ==
  IF a = <<>> THEN (IF carry = 0 THEN <<>> ELSE <<carry>>)
  ELSE LET t == Head(a) * m + carry
       IN  <<t % Base>> \o BMulFrom(Tail(a), m, t \div Base)

BMul(a, m) == Trim(BMulFrom(a, m, 0))

\* quotient and remainder of a by a small d, by long division from the top
RECURSIVE BDivFrom(_, _, _, _)
BDivFrom(a, d, i, rem) ==
  IF i = 0 THEN [q |-> <<>>, r |-> rem]
  ELSE LET t    == rem * Base + a[i]
           rest == BDivFrom(a, d, i - 1, t % d)
       IN  [q |-> rest.q \o <<t \div d>>, r |-> rest.r]

BDiv(a, d) ==
  LET qr == BDivFrom(a, d, Len(a), 0) IN [q |-> Trim(qr.q), r |-> qr.r]

RECURSIVE BitLength(_)
BitLength(n) == IF n = 0 THEN 0 ELSE 1 + BitLength(n \div 2)

BBitLength(a) == IF a = <<>> THEN 0 ELSE 15 * (Len(a) - 1) + BitLength(a[Len(a)])

BShl(a, k) ==
  IF a = <<>> THEN <<>> ELSE [i \in 1..(k \div 15) |-> 0] \o BMul(a, Pow2(k % 15))

\* a shifted right by k bits, and whether a one was shifted out
BShr(a, k) ==
  LET qr == BDiv(SubSeq(a, k \div 15 + 1, Len(a)), Pow2(k % 15))
  IN  [q |-> qr.q, lost |-> qr.r # 0 \/ \E i \in 1..(k \div 15) : a[i] # 0]

BOdd(a) == Digit(a, 1) % 2 = 1

\* round to nearest, ties to even, at the 53 significant bits of a binary64;
\* inexact says that the true magnitude lies strictly above n
Round(n, inexact) ==
  IF BBitLength(n) <= 53 THEN n
  ELSE LET p    == BBitLength(n) - 53
           half == BShr(n, p - 1)
           keep == BDiv(half.q, 2).q
           up   == BOdd(half.q) /\ (inexact \/ half.lost \/ BOdd(keep))
       IN  BShl(IF up THEN BAdd(keep, <<1>>) ELSE keep, p)

Float(neg, mag) == [neg |-> neg /\ mag # <<>>, mag |-> mag]

\* the float nearest to the decimal h/100
float_of(h) == Float(FALSE, LET qr == BDiv(BShl(Trim(<<h>>), 75), 100)
                            IN  Round(qr.q, qr.r # 0))

float_neg(x) == Float(~x.neg, x.mag)

float_add(x, y) ==
  IF x.neg = y.neg THEN Float(x.neg, Round(BAdd(x.mag, y.mag), FALSE))
  ELSE IF BLess(x.mag, y.mag) THEN Float(y.neg, Round(BSub(y.mag, x.mag), FALSE))
  ELSE Float(x.neg, Round(BSub(x.mag, y.mag), FALSE))

float_sub(x, y) == float_add(x, float_neg(y))

\* x / n for an int n >= 1
float_div(x, n) == Float(x.neg, LET qr == BDiv(x.mag, n) IN Round(qr.q, qr.r # 0))

float_less(x, y) ==
  IF x.neg # y.neg THEN x.neg
  ELSE IF x.neg THEN BLess(y.mag, x.mag) ELSE BLess(x.mag, y.mag)

float_abs_less(x, y) == BLess(x.mag, y.mag)

Zero == Float(FALSE, <<>>)

\* sum() of a list of floats.  Up to CPython 3.11 it adds from left to right;
\* from 3.12 it carries the rounding errors along (Neumaier) and adds them in
\* at the end.
RECURSIVE plain_sum(_, _)
plain_sum(xs, acc) ==
  IF xs = <<>> THEN acc ELSE plain_sum(Tail(xs), float_add(acc, Head(xs)))

RECURSIVE compensated_sum(_, _, _)
compensated_sum(xs, f, c) ==
  IF xs = <<>> THEN (IF c = Zero THEN f ELSE float_add(f, c))
  ELSE LET x == Head(xs)
           t == float_add(f, x)
           e == IF float_abs_less(f, x)
                THEN float_add(float_sub(x, t), f)
                ELSE float_add(float_sub(f, t), x)
       IN  compensated_sum(Tail(xs), t, float_add(c, e))

Pythons == {"3.11", "3.12"}

sum(xs, python) ==
  IF xs = <<>> THEN Zero
  ELSE IF python = "3.11" THEN plain_sum(xs, Zero)
  ELSE compensated_sum(Tail(xs), float_add(Zero, Head(xs)), Zero)

\* sorted(xs, reverse=True): stable, highest first
RECURSIVE insert_desc(_, _)
insert_desc(x, sorted_xs) ==
  IF sorted_xs = <<>> THEN <<x>>
  ELSE IF float_less(Head(sorted_xs), x) THEN <<x>> \o sorted_xs
  ELSE <<Head(sorted_xs)>> \o insert_desc(x, Tail(sorted_xs))

RECURSIVE sorted_reverse(_)
sorted_reverse(xs) ==
  IF xs = <<>> THEN <<>>
  ELSE insert_desc(xs[Len(xs)], sorted_reverse(SubSeq(xs, 1, Len(xs) - 1)))

ConfidenceTopK == 3

top_scores_unsorted(sources) ==
  Slice([i \in 1..Len(sources) |-> sources[i].score], ConfidenceTopK)

top_scores(sources) ==
  Slice(sorted_reverse([i \in 1..Len(sources) |-> sources[i].score]), ConfidenceTopK)

_calculate_confidence(sources, python) ==
  IF sources = <<>> THEN Zero
  ELSE LET top == top_scores(sources)
       IN  IF top = <<>> THEN Zero ELSE float_div(sum(top, python), Len(top))

ScoreValues == {0, 10, 70, 85, 100}

Scores == [h \in ScoreValues |-> float_of(h)]

ScoreLists == UNION {[1..n -> ScoreValues] : n \in 0..MaxSources}

ConfInit ==
  /\ fn \in {[op |-> "ready", scores |-> l, python |-> p, confidence |-> Zero] :
               l \in ScoreLists, p \in Pythons}
  /\ max_iterations = MaxIter
  /\ EngineInit
  /\ runs = NoRuns
  /\ frames = NoFrames
  /\ svc = NoSvc
  /\ container = NoContainer
  /\ indexing = NoIndexing

SourcesOf(scores) == [i \in 1..Len(scores) |-> [score |-> Scores[scores[i]]]]

CalculateConfidence ==
  /\ fn.op = "ready"
  /\ fn' = [fn EXCEPT !.op = "confidence",
                      !.confidence = _calculate_confidence(SourcesOf(fn.scores), fn.python)]
  /\ UNCHANGED <<engineVars, concVars, svc, container, indexing>>

ConfNext == CalculateConfidence

ConfSpec == ConfInit /\ [][ConfNext]_vars

(***************************************************************************)
(* MCPProvider.get_context (src/mcp/mcp_provider.py:31-90).  A document is *)
(* a dict; .get("content", "") gives the empty text when the key is        *)
(* missing and len() counts its characters.                                *)
(***************************************************************************)
MaxDocs == 3
MaxTokens == 4

TokenChars == 4

\* dict.get(key, default)
get(doc, key, default) == IF key \in DOMAIN doc THEN doc[key] ELSE default

doc_tokens(doc) == Len(get(doc, "content", <<>>)) \div TokenChars

context_doc(doc) ==
    [id |-> get(doc, "id", None),
     content |-> get(doc, "content", None),
     score |-> get(doc, "score", 0),
     metadata |-> get(doc, "metadata", EmptyDict)]

\* the loop with continue in the place of break
RECURSIVE context_docs_skipping(_, _, _, _)
context_docs_skipping(documents, context_docs, current_tokens, max_tokens) ==
    IF documents = <<>>
    THEN [context_docs |-> context_docs, current_tokens |-> current_tokens]
    ELSE LET doc == Head(documents)
         IN IF current_tokens + doc_tokens(doc) > max_tokens
            THEN context_docs_skipping(Tail(documents), context_docs,
                                       current_tokens, max_tokens)
            ELSE context_docs_skipping(Tail(documents),
                                       Append(context_docs, context_doc(doc)),
                                       current_tokens + doc_tokens(doc), max_tokens)

\* the for loop over documents, left by break at the first one that does
\* not fit
RECURSIVE context_docs_loop(_, _, _, _)
context_docs_loop(documents, context_docs, current_tokens, max_tokens) ==
    IF documents = <<>>
    THEN [context_docs |-> context_docs, current_tokens |-> current_tokens]
    ELSE LET doc == Head(documents)
         IN IF current_tokens + doc_tokens(doc) > max_tokens
            THEN [context_docs |-> context_docs, current_tokens |-> current_tokens]
            ELSE context_docs_loop(Tail(documents),
                                   Append(context_docs, context_doc(doc)),
                                   current_tokens + doc_tokens(doc), max_tokens)

\* variant: the documents that fit, wherever they stand in the list
included_skipping(documents, max_tokens) ==
    context_docs_skipping(documents, <<>>, 0, max_tokens)

\* context_docs and current_tokens as the loop leaves them
included(documents, max_tokens) == context_docs_loop(documents, <<>>, 0, max_tokens)

get_context(enabled, query, documents, max_tokens) ==
    IF ~enabled
    THEN [query |-> query, context_documents |-> <<>>,
          metadata |-> [enabled |-> FALSE], max_tokens |-> max_tokens]
    ELSE LET loop == included(documents, max_tokens)
         IN [query |-> query,
             context_documents |-> loop.context_docs,
             metadata |-> [total_documents |-> Len(documents),
                           included_documents |-> Len(loop.context_docs),
                           estimated_tokens |-> loop.current_tokens],
             max_tokens |-> max_tokens]

\* documents of 0, 0, 1, 2 and 3 estimated tokens, and one without content
McpDocuments ==
    {[id |-> "e0", content |-> <<>>, score |-> 90],
     [id |-> "e3", content |-> Cycle(<<"a","b","c">>, 3), score |-> 80, metadata |-> "m"],
     [id |-> "e4", content |-> Cycle(<<"a","b","c","d">>, 4), score |-> 70],
     [id |-> "e8", content |-> Cycle(<<"a","b","c","d">>, 8)],
     [id |-> "e13", content |-> Cycle(<<"a","b","c","d">>, 13), score |-> 50],
     [id |-> "e", score |-> 40]}

McpDocumentLists == UNION {[1..n -> McpDocuments] : n \in 0..MaxDocs}

\* max_tokens is an int without validation
McpMaxTokens == (-1)..MaxTokens

McpInit ==
    /\ max_iterations = MaxIter
    /\ EngineInit
    /\ runs = NoRuns
    /\ frames = NoFrames
    /\ fn \in {[op |-> "ready", enabled |-> enabled, documents |-> documents,
                max_tokens |-> max_tokens, context |-> None] :
                  enabled \in BOOLEAN, documents \in McpDocumentLists,
                  max_tokens \in McpMaxTokens}
    /\ svc = NoSvc
    /\ container = NoContainer
    /\ indexing = NoIndexing

GetContext ==
    /\ fn.op = "ready"
    /\ fn' = [fn EXCEPT !.op = "get_context",
                        !.context = get_context(fn.enabled, QueryA, fn.documents,
                                                fn.max_tokens)]
    /\ UNCHANGED <<engineVars, concVars, svc, container, indexing>>

McpNext == GetContext

McpSpec == McpInit /\ [][McpNext]_vars

(***************************************************************************)
(* IndexingService (src/services/indexing_service.py) over the in-memory   *)
(* repositories it is built with (dependencies.py:87-95) and the Qdrant    *)
(* repository.  The repositories hold the Document and IndexingJob objects *)
(* themselves: objects[d] and jobs[j] are those objects, held is the key   *)
(* set of MockDocumentRepository.documents, points[d] counts the points of *)
(* document d in the vector store.  The awaits on the in-memory            *)
(* repositories, on _parse_document and on the Qdrant repository do not    *)
(* suspend; a call is suspended only in aembed_query, and there other      *)
(* requests are served.                                                    *)
(***************************************************************************)
IdxMaxDocs == 2
IdxMaxChunks == 2
IdxMaxCalls == 3

\* a local variable of process_document that was never assigned
Unbound == [unbound |-> TRUE]
Ref(k) == [ref |-> k]

ParseFailures == {"FileNotFoundError"}

\* what _parse_document and split_text give: an error, or text chunks
ParseOutcomes ==
    {[raised |-> e, text_chunks |-> 0] : e \in ParseFailures}
        \cup {[raised |-> "none", text_chunks |-> n] : n \in 0..IdxMaxChunks}

NoProcess ==
    [pc |-> "none", document_id |-> 0, document |-> Unbound, saved_job |-> Unbound,
     text_chunks |-> 0, chunks |-> 0, raised |-> "none", returned |-> NoResult,
     jobs_before |-> 0, number |-> 0]
NoDelete == [document_id |-> 0, returned |-> FALSE, raised |-> "none", count |-> 0]

IdxInit ==
    /\ max_iterations = MaxIter
    /\ EngineInit
    /\ runs = NoRuns
    /\ frames = NoFrames
    /\ fn = NoFn
    /\ svc = NoSvc
    /\ container = NoContainer
    /\ indexing = [objects |-> <<>>, held |-> {}, jobs |-> <<>>, points |-> <<>>,
                   calls |-> 0, call |-> NoProcess, deleted |-> NoDelete]

IdxUnchanged == UNCHANGED <<engineVars, concVars, fn, svc, container>>

\* create_document: a Document with a fresh id, PENDING, stored
CreateDocument ==
    /\ Len(indexing.objects) < IdxMaxDocs
    /\ indexing' = [indexing EXCEPT
                       !.objects = Append(@, [status |-> "pending",
                                              error_message |-> None]),
                       !.held = @ \cup {Len(indexing.objects) + 1},
                       !.points = Append(@, 0)]
    /\ IdxUnchanged

\* MockDocumentRepository.get_by_id: self.documents.get(document_id)
doc_get_by_id(ix, document_id) ==
    IF document_id \in ix.held THEN Ref(document_id) ELSE None

\* document.<field> = value; await self.doc_repo.update(document)
doc_update(ix, d, status, message) ==
    [ix EXCEPT !.objects[d] = [status |-> status, error_message |-> message],
               !.held = @ \cup {d}]

\* saved_job.<field> = value; await self.job_repo.update(saved_job)
job_update(ix, j, status, chunks, message) ==
    [ix EXCEPT !.jobs[j] = [@ EXCEPT !.status = status,
                                     !.total_chunks = chunks,
                                     !.processed_chunks = chunks,
                                     !.error_message = message]]

\* variant: the except clause raises again without touching the document
except_clause_skips_document(ix, exc) ==
    IF ix.call.saved_job = Unbound
    THEN [ix EXCEPT !.call.pc = "raised", !.call.raised = "UnboundLocalError"]
    ELSE [job_update(ix, ix.call.saved_job.ref, "failed",
                     ix.jobs[ix.call.saved_job.ref].total_chunks, exc)
             EXCEPT !.call.pc = "raised", !.call.raised = exc]

\* the except clause of process_document: the tests "if document" and
\* "if saved_job" read locals that the try block may not have assigned
except_clause(ix, exc) ==
    IF ix.call.document = Unbound
    THEN [ix EXCEPT !.call.pc = "raised", !.call.raised = "UnboundLocalError"]
    ELSE LET marked == IF ix.call.document = None THEN ix
                       ELSE doc_update(ix, ix.call.document.ref, "failed", exc)
         IN IF ix.call.saved_job = Unbound
            THEN [marked EXCEPT !.call.pc = "raised",
                                !.call.raised = "UnboundLocalError"]
            ELSE [job_update(marked, ix.call.saved_job.ref, "failed",
                             marked.jobs[ix.call.saved_job.ref].total_chunks, exc)
                     EXCEPT !.call.pc = "raised", !.call.raised = exc]

\* QdrantRepository.upsert_chunks: False for no points and when the client
\* raised, which it only logs
upsert_chunks(ix, d, chunks, client_raised) ==
    IF chunks = 0 \/ client_raised # "none"
    THEN [ok |-> FALSE, ix |-> ix]
    ELSE [ok |-> TRUE, ix |-> [ix EXCEPT !.points[d] = @ + chunks]]

\* process_document from the upsert to its return
store_and_complete(ix, client_raised) ==
    LET d      == ix.call.document_id
        stored == upsert_chunks(ix, d, ix.call.chunks, client_raised)
    IN IF ~stored.ok THEN except_clause(ix, "Exception")
       ELSE LET j    == ix.call.saved_job.ref
                done == job_update(doc_update(stored.ix, d, "completed",
                                              stored.ix.objects[d].error_message),
                                   j, "completed", ix.call.chunks,
                                   stored.ix.jobs[j].error_message)
            IN [done EXCEPT !.call.pc = "returned", !.call.returned = Ref(j)]

\* process_document(document_id) from its call to the first aembed_query:
\* parsed is what parsing and splitting gave
ProcessDocument(document_id, parsed, client_raised) ==
    /\ indexing.call.pc \in {"none", "returned", "raised"}
    /\ indexing.calls < IdxMaxCalls
    /\ LET called   == [indexing EXCEPT
                           !.calls = @ + 1,
                           !.call = [NoProcess EXCEPT
                                        !.document_id = document_id,
                                        !.jobs_before = Len(indexing.jobs),
                                        !.number = indexing.calls + 1]]
           document == doc_get_by_id(called, document_id)
           found    == [called EXCEPT !.call.document = document]
       IN IF document = None
          THEN indexing' = except_clause(found, "ValueError")
          ELSE LET started == [doc_update(found, document_id, "processing",
                                          found.objects[document_id].error_message)
                                  EXCEPT !.jobs = Append(@, [document_id |-> document_id,
                                                             status |-> "pending",
                                                             total_chunks |-> 0,
                                                             processed_chunks |-> 0,
                                                             error_message |-> None]),
                                         !.call.saved_job = Ref(Len(found.jobs) + 1)]
               IN IF parsed.raised # "none"
                  THEN indexing' = except_clause(started, parsed.raised)
                  ELSE IF parsed.text_chunks = 0
                  THEN indexing' = store_and_complete(started, client_raised)
                  ELSE indexing' = [started EXCEPT !.call.pc = "embedding",
                                                   !.call.text_chunks = parsed.text_chunks]
    /\ IdxUnchanged

\* aembed_query returned: the chunk is appended; after the last one the
\* chunks are stored and the call ends
EmbeddingReturns(client_raised) ==
    /\ indexing.call.pc = "embedding"
    /\ LET embedded == [indexing EXCEPT !.call.chunks = @ + 1]
       IN IF embedded.call.chunks < embedded.call.text_chunks
          THEN indexing' = embedded
          ELSE indexing' = store_and_complete(embedded, client_raised)
    /\ IdxUnchanged

EmbeddingFails(exc) ==
    /\ indexing.call.pc = "embedding"
    /\ indexing' = except_clause(indexing, exc)
    /\ IdxUnchanged

\* QdrantRepository.delete_by_document_id: False when the client raised,
\* which it only logs
delete_by_document_id(ix, document_id, client_raised) ==
    IF client_raised # "none" THEN [ok |-> FALSE, ix |-> ix]
    ELSE [ok |-> TRUE,
          ix |-> IF document_id \in 1..Len(ix.points)
                 THEN [ix EXCEPT !.points[document_id] = 0] ELSE ix]

\* MockDocumentRepository.delete
doc_delete(ix, document_id) ==
    IF document_id \in ix.held
    THEN [ok |-> TRUE, ix |-> [ix EXCEPT !.held = @ \ {document_id}]]
    ELSE [ok |-> FALSE, ix |-> ix]

\* variant: the outcome of the vector store deletion is honoured
delete_document_checked(ix, document_id, client_raised) ==
    LET unindexed == delete_by_document_id(ix, document_id, client_raised)
        removed   == doc_delete(unindexed.ix, document_id)
    IN IF ~unindexed.ok THEN [returned |-> FALSE, raised |-> "none", ix |-> ix]
       ELSE [returned |-> removed.ok, raised |-> "none", ix |-> removed.ix]

\* delete_document: the value of delete_by_document_id is dropped
delete_document(ix, document_id, client_raised) ==
    LET unindexed == delete_by_document_id(ix, document_id, client_raised)
        removed   == doc_delete(unindexed.ix, document_id)
    IN [returned |-> removed.ok, raised |-> "none", ix |-> removed.ix]

\* DELETE of a document, served while no call runs or while process_document
\* waits for an embedding
DeleteDocument(document_id, client_raised) ==
    /\ indexing.calls < IdxMaxCalls
    /\ LET done == delete_document(indexing, document_id, client_raised)
       IN indexing' = [done.ix EXCEPT
                          !.calls = @ + 1,
                          !.deleted = [document_id |-> document_id,
                                       returned |-> done.returned,
                                       raised |-> done.raised,
                                       count |-> indexing.deleted.count + 1]]
    /\ IdxUnchanged

\* document ids: those given out so far and 0, which no document has
IdxNext ==
    \/ CreateDocument
    \/ \E d \in 0..Len(indexing.objects), parsed \in ParseOutcomes,
          raised \in {"none"} \cup StoreFailures : ProcessDocument(d, parsed, raised)
    \/ \E raised \in {"none"} \cup StoreFailures : EmbeddingReturns(raised)
    \/ \E e \in EmbeddingFailures : EmbeddingFails(e)
    \/ \E d \in 0..Len(indexing.objects), raised \in {"none"} \cup StoreFailures :
          DeleteDocument(d, raised)

IdxSpec == IdxInit /\ [][IdxNext]_vars

(***************************************************************************)
(* Helpers of the properties.                                              *)
(***************************************************************************)
Last(s) == s[Len(s)]
RECURSIVE Count(_, _)
Count(s, x) ==
    IF s = <<>> THEN 0
    ELSE (IF Head(s) = x THEN 1 ELSE 0) + Count(Tail(s), x)

Running == pc \in {"router_agent", "query_agent", "evaluation_agent", "response_agent"}
Finished == pc \in {"END", "returned"}
HasState == pc # "idle"

\* the upper-case form of a lower-case letter
UpperChar(c) ==
    IF \E i \in 1..Len(LowerChars) : LowerChars[i] = c
    THEN UpperChars[CHOOSE i \in 1..Len(LowerChars) : LowerChars[i] = c]
    ELSE c

\* word (given in lower case) occurs in text, each letter in either case
OccursAnyCase(word, text) ==
    \E off \in 0..(Len(text) - Len(word)) :
        \A j \in 1..Len(word) : text[off + j] \in {word[j], UpperChar(word[j])}

SaysDirect(text) == OccursAnyCase(StrDirect, text)
SaysSufficient(text) ==
    OccursAnyCase(StrSufficient, text) /\ OccursAnyCase(StrTrue, text)

RetrieverPasses == Count(trace, "query_agent")
EvaluatorPasses == Count(trace, "evaluation_agent")

(***************************************************************************)
(* C1                                                                      *)
(***************************************************************************)
StageEdges ==
    {<<"router_agent", "query_agent">>, <<"router_agent", "response_agent">>,
     <<"query_agent", "evaluation_agent">>,
     <<"evaluation_agent", "query_agent">>, <<"evaluation_agent", "response_agent">>}

\* C1: the executed stages start at the router and follow only the edges
\* router->retriever, router->synthesizer, retriever->evaluator,
\* evaluator->retriever, evaluator->synthesizer, synthesizer->END; END is
\* entered only from the synthesizer and the retriever is always followed by
\* the evaluator.
C1_StageOrder ==
    /\ trace # <<>> => trace[1] = "router_agent"
    /\ pc = "router_agent" => trace = <<>>
    /\ \A i \in 1..(Len(trace) - 1) : <<trace[i], trace[i + 1]>> \in StageEdges
    /\ pc \in {"query_agent", "evaluation_agent", "response_agent"} =>
          trace # <<>> /\ <<Last(trace), pc>> \in StageEdges
    /\ Finished => trace # <<>> /\ Last(trace) = "response_agent"
    /\ (trace # <<>> /\ pc # "aborted" /\ Last(trace) = "query_agent") =>
          pc = "evaluation_agent"
    /\ (trace # <<>> /\ pc # "aborted" /\ Last(trace) = "response_agent") => Finished

\* a finished run that went twice through the retriever/evaluator cycle
C1_Witness ==
    /\ pc = "END"
    /\ trace = <<"router_agent", "query_agent", "evaluation_agent",
                 "query_agent", "evaluation_agent", "response_agent">>

(***************************************************************************)
(* C2                                                                      *)
(***************************************************************************)
\* C2: with max_iterations >= 1, a started run whose external calls all
\* return reaches END (a run leaves the graph otherwise only through a
\* failed call), and it makes at most max_iterations retriever passes and
\* at most max_iterations evaluator passes.
C2_Terminates ==
    /\ [](max_iterations >= 1 =>
            /\ RetrieverPasses <= max_iterations
            /\ EvaluatorPasses <= max_iterations)
    /\ [](pc = "aborted" => error \in LLMFailures \cup EmbeddingFailures)
    /\ ((pc = "router_agent" /\ max_iterations >= 1) ~> (pc = "END" \/ pc = "aborted"))

\* a run that used all its max_iterations >= 2 cycles and reached END
C2_Witness ==
    /\ pc = "END"
    /\ max_iterations >= 2
    /\ RetrieverPasses = max_iterations
    /\ EvaluatorPasses = max_iterations

(***************************************************************************)
(* C3                                                                      *)
(***************************************************************************)
AllInsufficient == \A i \in 1..Len(inputs.evals) : ~SaysSufficient(inputs.evals[i])
RoutedToRetrieval == inputs.router # <<>> /\ ~SaysDirect(inputs.router[1])

ExactlyNPasses ==
    /\ RetrieverPasses = max_iterations
    /\ searchCalls = max_iterations
    /\ state.iteration = max_iterations
    /\ Count(log, WarnMaxIterations) = 1
    /\ trace[Len(trace) - 1] = "evaluation_agent"
    /\ pc = "returned" => result.iterations = max_iterations

\* C3 as stated, for every max_iterations = N: a finished run routed to
\* retrieval whose evaluator replies all judge the evidence insufficient made
\* exactly N retriever passes, took the forced "respond" branch and returns
\* iterations = N.
C3_Original ==
    (Finished /\ RoutedToRetrieval /\ AllInsufficient) => ExactlyNPasses

\* C3 (amended): the same for max_iterations = N >= 1.
C3_ExactlyNPasses ==
    (Finished /\ max_iterations >= 1 /\ RoutedToRetrieval /\ AllInsufficient) =>
        ExactlyNPasses

\* a returned run with N = 2 and two "sufficient: false" replies
C3_Witness ==
    /\ pc = "returned"
    /\ max_iterations = 2
    /\ RoutedToRetrieval
    /\ inputs.evals = <<EvalReplyFalse, EvalReplyFalse>>
    /\ result.iterations = 2

(***************************************************************************)
(* C4                                                                      *)
(***************************************************************************)
RouterJustRan == trace = <<"router_agent">> /\ pc # "aborted"

\* C4: after the router, the next stage is the synthesizer exactly when the
\* router's reply contains "direct" in any letter case; for every other
\* reply (empty and malformed ones included) it is the retriever.
C4_RouterBranch ==
    RouterJustRan =>
        /\ pc \in {"response_agent", "query_agent"}
        /\ pc = "response_agent" <=> SaysDirect(inputs.router[1])

\* the reply "Route: DiRECT" sent the run to the synthesizer
C4_Witness ==
    /\ RouterJustRan
    /\ inputs.router = <<RouterReplyMixed>>
    /\ pc = "response_agent"

(***************************************************************************)
(* C5                                                                      *)
(***************************************************************************)
RoutedDirect == inputs.router # <<>> /\ SaysDirect(inputs.router[1])

\* C5: in a run whose router reply contains "direct", the retriever and the
\* retrieval function never execute, search_results is empty in every
\* state, and execute() returns sources = [] and iterations = 0.
C5_DirectSkipsRetrieval ==
    /\ pc = "router_agent" => state.search_results = <<>>
    /\ RoutedDirect =>
        /\ RetrieverPasses = 0
        /\ searchCalls = 0
        /\ inputs.searches_returned = 0
        /\ state.search_results = <<>>
        /\ state.iteration = 0
        /\ pc = "returned" => result.sources = <<>> /\ result.iterations = 0

\* the run of "route: direct, reasoning: general knowledge" has returned
C5_Witness ==
    /\ pc = "returned"
    /\ inputs.router = <<RouterReplyDirect>>
    /\ trace = <<"router_agent", "response_agent">>
    /\ result.iterations = 0

(***************************************************************************)
(* C6                                                                      *)
(***************************************************************************)
SynthesizerRan == Count(trace, "response_agent") > 0

\* C6: in a run whose router reply does not contain "direct", the retriever
\* is the stage after the router, so it has run before the synthesizer sets
\* answer; answer is empty up to and including the first retriever pass.
C6_RetrieveBeforeAnswer ==
    RoutedToRetrieval =>
        /\ Len(trace) >= 2 => trace[2] = "query_agent"
        /\ Len(trace) <= 2 => state.answer = EmptyStr
        /\ ~SynthesizerRan => state.answer = EmptyStr
        /\ (SynthesizerRan \/ state.answer # EmptyStr) =>
              /\ RetrieverPasses >= 1
              /\ searchCalls >= 1
              /\ state.iteration >= 1

\* a run routed to retrieval whose answer was set after one retriever pass
C6_Witness ==
    /\ pc = "END"
    /\ RoutedToRetrieval
    /\ RetrieverPasses = 1
    /\ state.answer = AnswerText

(***************************************************************************)
(* C7                                                                      *)
(***************************************************************************)
EvaluatorDecides == pc = "evaluation_agent" /\ pc' # "aborted" /\ pc' # pc

\* C7: when the evaluator's decision is taken with
\* iteration >= max_iterations, the branch is "respond" whatever the reply
\* is, and the reached-limit warning is written to the log.
C7_LimitForcesRespond ==
    [][(EvaluatorDecides /\ state'.iteration >= max_iterations) =>
          /\ pc' = "response_agent"
          /\ Len(log') > Len(log)
          /\ log'[Len(log')] = WarnMaxIterations
          /\ Count(log', WarnMaxIterations) = Count(log, WarnMaxIterations) + 1]_vars

\* the limit was reached with a reply that judges the evidence sufficient:
\* the forced branch was taken all the same and the warning is the last record
C7_Witness ==
    /\ pc = "response_agent"
    /\ Last(trace) = "evaluation_agent"
    /\ state.iteration >= max_iterations
    /\ max_iterations >= 1
    /\ SaysSufficient(Last(inputs.evals))
    /\ Last(log) = WarnMaxIterations

(***************************************************************************)
(* C8                                                                      *)
(***************************************************************************)
\* C8: when the evaluator's decision is taken with
\* iteration < max_iterations, the branch is "respond" exactly when the
\* reply contains both "sufficient" and "true" in any letter case; every
\* other reply (empty and malformed ones included) gives "refine", and no
\* reached-limit warning is written.
C8_ReplyDecides ==
    [][(EvaluatorDecides /\ state'.iteration < max_iterations) =>
          /\ pc' \in {"response_agent", "query_agent"}
          /\ pc' = "response_agent" <=>
                SaysSufficient(inputs'.evals[Len(inputs'.evals)])
          /\ Count(log', WarnMaxIterations) = Count(log, WarnMaxIterations)]_vars

\* below the limit, the reply "TRUE, Sufficient" led to the synthesizer
C8_Witness ==
    /\ pc = "response_agent"
    /\ Last(trace) = "evaluation_agent"
    /\ state.iteration < max_iterations
    /\ Last(inputs.evals) = EvalReplyMixed

(***************************************************************************)
(* C9                                                                      *)
(***************************************************************************)
\* C9: for a run routed to retrieval with max_iterations >= 1, the returned
\* iterations is the smallest k >= 1 such that the k-th evaluator reply
\* judges the evidence sufficient or k = max_iterations; k is also the
\* number of retriever passes.
C9_IterationsReturned ==
    (pc = "returned" /\ RoutedToRetrieval /\ max_iterations >= 1) =>
        LET k == result.iterations
        IN /\ k >= 1
           /\ k = Len(inputs.evals)
           /\ k = RetrieverPasses
           /\ SaysSufficient(inputs.evals[k]) \/ k = max_iterations
           /\ \A j \in 1..(k - 1) :
                 ~SaysSufficient(inputs.evals[j]) /\ j # max_iterations

\* max_iterations = 3, replies "sufficient: false" then "sufficient: true"
C9_Witness ==
    /\ pc = "returned"
    /\ max_iterations = 3
    /\ RoutedToRetrieval
    /\ inputs.evals = <<EvalReplyFalse, EvalReplyTrue>>
    /\ result.iterations = 2

(***************************************************************************)
(* C10                                                                     *)
(***************************************************************************)
IterationStep ==
    /\ (pc \in {"idle", "returned", "aborted"} /\ pc' = "router_agent") =>
          state'.iteration = 0
    /\ (pc = "query_agent" /\ pc' = "evaluation_agent") =>
          state'.iteration = state.iteration + 1
    /\ (pc \in {"router_agent", "evaluation_agent", "response_agent", "END"}) =>
          state'.iteration = state.iteration
    /\ (pc = "query_agent" /\ pc' = "aborted") =>
          state'.iteration = state.iteration

\* C10: iteration is 0 at the start of a run, the router, the evaluator and
\* the synthesizer leave it unchanged, each retriever pass adds exactly 1,
\* and in every state it is the number of retriever passes completed.
C10_IterationCounts ==
    /\ [](HasState => state.iteration = inputs.searches_returned)
    /\ [][IterationStep]_vars

\* two retriever passes are completed and iteration is 2
C10_Witness ==
    /\ pc = "evaluation_agent"
    /\ RetrieverPasses = 2
    /\ state.iteration = 2

(***************************************************************************)
(* C11                                                                     *)
(***************************************************************************)
\* C11 as stated: in every state of every run and for every configured
\* max_iterations, iteration <= max_iterations + 1.
C11_Original == HasState => state.iteration <= max_iterations + 1

\* C11 (amended): for every max_iterations >= 0 (0 included)
\* iteration <= max_iterations + 1; with a negative max_iterations the
\* iteration count still reaches 1 and goes no further.
C11_IterationBound ==
    HasState =>
        state.iteration <= (IF max_iterations >= 0 THEN max_iterations + 1 ELSE 1)

\* max_iterations = 0 and the one retriever pass has been made
C11_Witness ==
    /\ max_iterations = 0
    /\ pc = "response_agent"
    /\ state.iteration = 1

(***************************************************************************)
(* C12                                                                     *)
(***************************************************************************)
AnswerStep ==
    /\ pc \in {"router_agent", "query_agent", "evaluation_agent", "END"} =>
          state'.answer = state.answer
    /\ (pc = "response_agent" /\ pc' = "END") =>
          state'.answer = inputs'.answer[1]
    /\ (pc = "response_agent" /\ pc' = "aborted") =>
          state'.answer = state.answer

\* C12: answer is empty until the synthesizer has executed; it is written
\* once, by the synthesizer only, to the synthesizer's reply, so it is
\* non-empty at END whenever that reply is non-empty; the router, the
\* retriever and the evaluator leave it unchanged.
C12_AnswerOnce ==
    /\ []((HasState /\ inputs.answer = <<>>) => state.answer = EmptyStr)
    /\ [](inputs.answer # <<>> =>
            /\ Len(inputs.answer) = 1
            /\ Count(trace, "response_agent") = 1
            /\ state.answer = inputs.answer[1])
    /\ [](pc = "returned" => result.answer = inputs.answer[1])
    /\ [][AnswerStep]_vars

\* a run through the evaluator that ended with the synthesizer's reply as answer
C12_Witness ==
    /\ pc = "END"
    /\ EvaluatorPasses >= 1
    /\ inputs.answer = <<AnswerText>>
    /\ state.answer = AnswerText

(***************************************************************************)
(* C13                                                                     *)
(***************************************************************************)
LLMNodes == {"router_agent", "evaluation_agent", "response_agent"}
LLMNodeEntries ==
    Count(trace, "router_agent") + Count(trace, "evaluation_agent")
        + Count(trace, "response_agent")
LLMRaised == inputs.raised # <<>> /\ Last(inputs.raised).dep = "llm"

\* C13: when the language-model call of the router, the evaluator or the
\* synthesizer raises, the run stops at that stage: the exception raised is
\* the one that leaves execute(), nothing is returned, no node runs
\* afterwards (the only next step is a new call of execute()), and every
\* node made exactly one call (no retry).
C13_LLMFailureAborts ==
    /\ [](LLMRaised =>
            /\ pc = "aborted"
            /\ error = Last(inputs.raised).exc
            /\ result = NoResult
            /\ Last(trace) \in LLMNodes)
    /\ [](llmCalls = LLMNodeEntries)
    /\ [][pc = "aborted" => (pc' = "router_agent" /\ trace' = <<>> /\ llmCalls' = 0)]_vars

\* the evaluator's call raised RateLimitError after one retriever pass
C13_Witness ==
    /\ pc = "aborted"
    /\ trace = <<"router_agent", "query_agent", "evaluation_agent">>
    /\ error = "RateLimitError"
    /\ LLMRaised

(***************************************************************************)
(* C14                                                                     *)
(***************************************************************************)
EmbeddingRaised == inputs.raised # <<>> /\ Last(inputs.raised).dep = "embedding"
StoreRaised == inputs.store_failed

\* C14: a failure inside the retrieval function during a retriever pass
\* aborts the run: the exception leaves execute(), neither the evaluator
\* nor the synthesizer runs afterwards, no answer is produced and the run
\* does not go on with an empty result list.
C14_RetrievalFailureAborts ==
    (EmbeddingRaised \/ StoreRaised) =>
        /\ pc = "aborted"
        /\ error \in EmbeddingFailures \cup StoreFailures
        /\ Last(trace) = "query_agent"
        /\ state.answer = EmptyStr
        /\ result = NoResult

(***************************************************************************)
(* C15                                                                     *)
(***************************************************************************)
LimitWasHit == Count(log, WarnMaxIterations) >= 1
LimitHit ==
    /\ pc = "response_agent"
    /\ trace # <<>>
    /\ Last(trace) = "evaluation_agent"
    /\ state.iteration >= max_iterations

ExecuteCalled == pc \in {"idle", "returned", "aborted"} /\ pc' = "router_agent"

\* what the current run has put into a metadata key
OwnMetadata(key, replies) ==
    IF replies = <<>> THEN key \notin DOMAIN state.metadata
    ELSE key \in DOMAIN state.metadata /\ state.metadata[key] = Last(replies)

\* C17: every call of execute() starts with iteration = 0 and with empty
\* messages, search_results, metadata and answer, also on an engine that
\* ran before; during a run the state holds only what that run's own
\* calls returned.
C17_FreshState ==
    /\ [][ExecuteCalled =>
            /\ state'.iteration = 0
            /\ state'.messages = <<>>
            /\ state'.search_results = <<>>
            /\ DOMAIN state'.metadata = {}
            /\ state'.answer = EmptyStr]_vars
    /\ [](HasState =>
            /\ state.messages = inputs.router \o inputs.evals \o inputs.answer
            /\ state.iteration = inputs.searches_returned
            /\ inputs.searches_returned = 0 => state.search_results = <<>>
            /\ OwnMetadata("router_decision", inputs.router)
            /\ OwnMetadata("evaluation", inputs.evals)
            /\ DOMAIN state.metadata \subseteq {"router_decision", "evaluation"})

\* a later run on the same engine, routed direct, ended with its own two
\* messages and nothing else
C17_Witness ==
    /\ reused
    /\ pc = "END"
    /\ state.messages = <<RouterReplyDirect, AnswerText>>
    /\ state.search_results = <<>>
    /\ state.iteration = 0

(***************************************************************************)
(* C18                                                                     *)
(***************************************************************************)
\* C18: every call of the retrieval function, in the first pass and in
\* every refinement pass, gets the text execute() was called with, and the
\* query field keeps that text through the whole run.
C18_SameQuery ==
    HasState =>
        /\ state.query = inputs.query
        /\ inputs.search_args \subseteq {inputs.query}
        /\ searchCalls >= 1 => inputs.search_args = {inputs.query}

\* the second retriever pass of execute("Doc X") has searched for "Doc X"
C18_Witness ==
    /\ pc = "evaluation_agent"
    /\ searchCalls = 2
    /\ inputs.evals # <<>>
    /\ inputs.query = QueryB
    /\ inputs.search_args = {QueryB}

(***************************************************************************)
(* C19                                                                     *)
(***************************************************************************)
\* C19: after a retriever pass search_results is exactly the list that
\* pass's retrieval call returned, no other stage changes it, and
\* execute() returns the list of the last pass as sources.
C19_ResultsAsReturned ==
    /\ (HasState /\ inputs.last_search # <<>>) =>
          state.search_results = inputs.last_search[1]
    /\ (pc = "returned" /\ inputs.last_search # <<>>) =>
          result.sources = inputs.last_search[1]

(***************************************************************************)
(* C20                                                                     *)
(***************************************************************************)
\* the position of the first occurrence of part in text, 0 when there is none
FirstAt(part, text) ==
    LET at == {i \in 1..(Len(text) - Len(part) + 1) :
                  \A j \in 1..Len(part) : text[i + j - 1] = part[j]}
    IN IF at = {} THEN 0 ELSE CHOOSE i \in at : \A k \in at : i <= k
Occurs(part, text) == FirstAt(part, text) > 0
SourceLabel(k) == <<"[", "S", "o", "u", "r", "c", "e", " ">> \o <<Digits[k + 1]>> \o <<"]">>
ContextBuilt == fn.op = "response_context"
Shown(n) == IF n < 5 THEN n ELSE 5

\* C20: the context block holds the first min(5, n) of the n search
\* results, in their order, each under its label [Source 1] ..
\* [Source min(5, n)]; a result at position 6 or later is not in it and no
\* label above min(5, n) is.
C20_ContextTopFive ==
    ContextBuilt =>
        LET list == fn.search_results
            text == fn.context
            shown == Shown(Len(list))
        IN /\ \A i \in 1..Len(list) : Occurs(list[i].content, text) <=> i <= 5
           /\ \A k \in 1..9 : Occurs(SourceLabel(k), text) <=> k <= shown
           /\ \A i \in 1..shown :
                 /\ FirstAt(SourceLabel(i), text) < FirstAt(list[i].content, text)
                 /\ i < shown =>
                       FirstAt(list[i].content, text) < FirstAt(SourceLabel(i + 1), text)

\* six results were given, the sixth is left out and five labels are shown
C20_Witness ==
    /\ ContextBuilt
    /\ Len(fn.search_results) >= 6
    /\ Occurs(SourceLabel(5), fn.context)
    /\ ~Occurs(fn.search_results[6].content, fn.context)

(***************************************************************************)
(* C16                                                                     *)
(***************************************************************************)
RECURSIVE Alone(_, _, _, _)
\* where a run that is the only one on the engine stands after the replies ins
Alone(node, st, ins, maxit) ==
    IF ins = <<>> THEN [pc |-> node, state |-> st]
    ELSE LET step == NodeStep(node, st, Head(ins), maxit)
         IN Alone(step.pc, step.state, Tail(ins), maxit)

AloneOf(r) ==
    Alone("router_agent",
          [messages |-> <<>>, query |-> runs[r].query, search_results |-> <<>>,
           answer |-> <<>>, current_agent |-> "", metadata |-> <<>>, iteration |-> 0],
          runs[r].ins, max_iterations)

\* C16: with two execute() calls interleaved in any way at their awaits, a
\* step of one run changes no state object of another run and no field of
\* the engine, every run stands where it would stand alone with the same
\* replies, and what it returns is what it would return alone.
C16_NoInterference ==
    /\ [][/\ max_iterations' = max_iterations
          /\ \A r \in RunIds : runs'[r] = runs[r] => frames'[r] = frames[r]]_vars
    /\ [](\A r \in RunIds :
            LET alone == AloneOf(r)
            IN /\ runs[r].pc \in NodeNames \cup {"END"} =>
                    /\ runs[r].pc = alone.pc
                    /\ frames[r] = alone.state
               /\ runs[r].pc = "returned" =>
                    /\ alone.pc = "END"
                    /\ runs[r].result.answer = alone.state.answer
                    /\ runs[r].result.sources = alone.state.search_results
                    /\ runs[r].result.metadata = alone.state.metadata
                    /\ runs[r].result.iterations = alone.state.iteration)

\* both runs were resumed while the other was in flight, and returned
\* different answers after different numbers of passes
C16_Witness ==
    /\ \A r \in RunIds : runs[r].pc = "returned" /\ runs[r].overlapped
    /\ runs[1].query # runs[2].query
    /\ runs[1].result.answer # runs[2].result.answer
    /\ runs[1].result.iterations = 2
    /\ runs[2].result.iterations = 0

(***************************************************************************)
(* C22                                                                     *)
(***************************************************************************)
IsPrefix(a, b) == Len(a) <= Len(b) /\ \A i \in 1..Len(a) : a[i] = b[i]

\* C22: within a run every step leaves the messages it found in place, in
\* their order, and at most adds messages at the end.
C22_MessagesAppendOnly ==
    [][~ExecuteCalled => IsPrefix(state.messages, state'.messages)]_vars

\* a run with a refinement pass has ended with four messages in the order
\* router, evaluator, evaluator, synthesizer
C22_Witness ==
    /\ pc = "END"
    /\ Len(state.messages) = 4
    /\ state.messages[1] = RouterReplyQuery
    /\ state.messages[2] = EvalReplyFalse
    /\ state.messages[3] = EvalReplyTrue
    /\ state.messages[4] = AnswerText

(***************************************************************************)
(* C23                                                                     *)
(***************************************************************************)
Absent == [absent |-> TRUE]
MetaValue(st, key) == IF key \in DOMAIN st.metadata THEN st.metadata[key] ELSE Absent
MetaWritten(key) == MetaValue(state', key) # MetaValue(state, key)

\* C23: within a run no metadata key is removed; router_decision changes
\* only in the Router's step and is that reply until the run has returned;
\* evaluation changes only in an Evaluator step and is the reply of the
\* latest Evaluator pass.
C23_MetadataAdditive ==
    /\ [][~ExecuteCalled =>
            /\ DOMAIN state.metadata \subseteq DOMAIN state'.metadata
            /\ MetaWritten("router_decision") => pc = "router_agent"
            /\ MetaWritten("evaluation") => pc = "evaluation_agent"
            /\ \A key \in DOMAIN state'.metadata :
                  key \in {"router_decision", "evaluation"}]_vars
    /\ []((HasState /\ inputs.router # <<>>) =>
            MetaValue(state, "router_decision") = inputs.router[1])
    /\ []((HasState /\ inputs.evals # <<>>) =>
            MetaValue(state, "evaluation") = inputs.evals[Len(inputs.evals)])
    /\ [](pc = "returned" =>
            /\ result.metadata = state.metadata
            /\ result.metadata["router_decision"] = inputs.router[1])

\* after two Evaluator passes the metadata holds the Router's reply and the
\* second Evaluator reply
C23_Witness ==
    /\ pc = "returned"
    /\ Len(inputs.evals) = 2
    /\ inputs.evals[1] # inputs.evals[2]
    /\ result.metadata["router_decision"] = RouterReplyQuery
    /\ result.metadata["evaluation"] = inputs.evals[2]

(***************************************************************************)
(* C24                                                                     *)
(***************************************************************************)
\* the tag each node writes when it is done; "response" is written by the
\* last node only
StageTag == [router_agent |-> "router", query_agent |-> "query",
             evaluation_agent |-> "evaluation", response_agent |-> "response"]

\* C24: after a stage has completed current_agent is the tag of that stage,
\* and once the Synthesizer has completed it is "response", the tag of the
\* end of the run.
C24_CurrentStage ==
    /\ (HasState /\ pc # "aborted" /\ trace # <<>>) =>
           state.current_agent = StageTag[Last(trace)]
    /\ pc \in {"END", "returned"} => state.current_agent = "response"

\* every stage has run and the run has ended
C24_Witness ==
    /\ pc = "END"
    /\ state.current_agent = "response"
    /\ {trace[i] : i \in 1..Len(trace)} =
          {"router_agent", "query_agent", "evaluation_agent", "response_agent"}

(***************************************************************************)
(* C21                                                                     *)
(***************************************************************************)
FirstChars(text, n) == IF Len(text) <= n THEN text ELSE SubSeq(text, 1, n)
ResultLabel(k) == <<"R", "e", "s", "u", "l", "t", " ">> \o <<Digits[k + 1]>> \o <<" ", "(">>
SummaryBuilt == fn.op = "results_summary"
Summarised(n) == IF n < 3 THEN n ELSE 3

\* C21: the summary holds the first min(3, n) of the n search results, in
\* their order, each under its label Result 1 .. Result min(3, n), with
\* the first 200 characters of its content and not the 201st; a result at
\* position 4 or later is not in it.
C21_SummaryTopThree ==
    SummaryBuilt =>
        LET list == fn.search_results
            text == fn.summary
            shown == Summarised(Len(list))
        IN /\ \A i \in 1..Len(list) :
                 Occurs(FirstChars(list[i].content, 200), text) <=> i <= 3
           /\ \A k \in 1..9 : Occurs(ResultLabel(k), text) <=> k <= shown
           /\ \A i \in 1..shown :
                 /\ FirstAt(ResultLabel(i), text)
                       < FirstAt(FirstChars(list[i].content, 200), text)
                 /\ i < shown =>
                       FirstAt(FirstChars(list[i].content, 200), text)
                          < FirstAt(ResultLabel(i + 1), text)
                 /\ Len(list[i].content) > 200 =>
                       ~Occurs(FirstChars(list[i].content, 201), text)

\* four results were given: one of 200 characters shown whole, one of 203
\* characters cut, a short one, and the fourth left out
C21_Witness ==
    /\ SummaryBuilt
    /\ Len(fn.search_results) = 4
    /\ Len(fn.search_results[1].content) = 200
    /\ Len(fn.search_results[2].content) = 203
    /\ Occurs(fn.search_results[1].content, fn.summary)
    /\ ~Occurs(fn.search_results[2].content, fn.summary)
    /\ Occurs(ResultLabel(3), fn.summary)
    /\ ~Occurs(fn.search_results[4].content, fn.summary)

(***************************************************************************)
(* C25                                                                     *)
(***************************************************************************)
QueryCall == svc.pc # "none" /\ svc.endpoint = "query"
QueryDone == QueryCall /\ svc.pc \in {"returned", "raised", "responded"}
QueryReturned == QueryDone /\ svc.call.raised = "none"

\* C25: a request with use_agent = False never runs a workflow stage and
\* makes at most one save, one vector search and one language-model call;
\* when its calls do not fail it makes exactly one of each and returns a
\* response with the request's query text and the model's reply as answer,
\* also when the search found nothing.
C25_SimplePath ==
    (QueryCall /\ ~svc.request.use_agent) =>
        /\ svc.call.stages = 0
        /\ svc.call.workflow = NoResult
        /\ svc.call.saves <= 1 /\ svc.call.searches <= 1 /\ svc.call.llm_calls <= 1
        /\ QueryDone =>
              \/ svc.call.raised \in SvcFailures \cup EmbeddingFailures
              \/ /\ svc.call.raised = "none"
                 /\ svc.call.saves = 1
                 /\ svc.call.searches = 1
                 /\ svc.call.llm_calls = 1
                 /\ svc.saved[Len(svc.saved)] = svc.request.query
                 /\ svc.call.returned.query = svc.request.query
                 /\ svc.call.returned.answer = svc.call.llm_reply[1]

\* the search found nothing and the request was answered with the reply
C25_Witness ==
    /\ svc.pc = "responded"
    /\ svc.endpoint = "query"
    /\ ~svc.request.use_agent
    /\ svc.store # <<>>
    /\ svc.call.search_results = <<>>
    /\ svc.call.http.status = 200
    /\ svc.call.http.body.answer = AnswerText
    /\ svc.call.http.body.query = QueryB

(***************************************************************************)
(* C26                                                                     *)
(***************************************************************************)
\* C26: a response of RAGService.query has at most request.top_k sources
\* and each of them has a score of at least request.score_threshold.
C26_RequestLimits ==
    QueryReturned =>
        /\ Len(svc.call.returned.sources) <= svc.request.top_k
        /\ \A i \in 1..Len(svc.call.returned.sources) :
              svc.call.returned.sources[i].score >= svc.request.score_threshold

(***************************************************************************)
(* C28                                                                     *)
(***************************************************************************)
Responded(endpoint) == svc.pc = "responded" /\ svc.endpoint = endpoint

\* C28: when RAGService.query raised, whatever raised in it, the query
\* endpoint answers with status 500, and it answers 200 only with the
\* response the service returned; get_query for an id that is not stored
\* answers 404.
C28_FailureStatus ==
    /\ Responded("query") =>
          /\ svc.call.raised # "none" => svc.call.http.status = 500
          /\ svc.call.http.status = 200 =>
                svc.call.raised = "none" /\ svc.call.http.body = svc.call.returned
          /\ svc.call.http.status \in {200, 500}
    /\ (Responded("get_query") /\ svc.call.raised = "none"
           /\ svc.request.query_id \notin 1..Len(svc.saved)) =>
          svc.call.http.status = 404

\* a request whose workflow failed was answered with 500, right after the
\* lookup of an id that is not stored was answered with 404
C28_Witness ==
    /\ Responded("query")
    /\ svc.request.use_agent
    /\ svc.call.raised \in SvcFailures
    /\ svc.call.http.status = 500
    /\ svc.previous = <<"get_query", 404>>

(***************************************************************************)
(* C30                                                                     *)
(***************************************************************************)
WorkflowCompleted == QueryDone /\ svc.request.use_agent /\ svc.call.workflow # NoResult

\* C30: when the workflow run of a request with use_agent = True has
\* completed, RAGService.query returns a response with one source, in
\* order, for each search result of the workflow.
C30_AgentSources ==
    WorkflowCompleted =>
        /\ svc.call.raised = "none"
        /\ Len(svc.call.returned.sources) = Len(svc.call.workflow.sources)
        /\ \A i \in 1..Len(svc.call.workflow.sources) :
              svc.call.returned.sources[i].content = svc.call.workflow.sources[i].content

(***************************************************************************)
(* C29                                                                     *)
(***************************************************************************)
Built == container.constructed
Got(t) == container.threads[t].got

\* C29: nothing is built before the first call of
\* get_rag_service_instance, the first call builds the service and its
\* engine with settings.agent_max_iterations, every call returns that one
\* instance, and no second one is ever built.
C29_Singleton ==
    /\ Len(Built) <= 1
    /\ (\A t \in Threads : Got(t) = None /\ container.threads[t].pc = "idle")
          => Built = <<>>
    /\ Built # <<>> =>
          /\ container._rag_service = [instance |-> 1]
          /\ Built[1].max_iterations = container.settings
          /\ Built[1].engine_max_iterations = container.settings
    /\ \A t \in Threads : Got(t) # None => Got(t) = [instance |-> 1]
    /\ container.serving => Got(StartupThread) = [instance |-> 1]

\* the startup and two requests have been given the instance while a third
\* request is testing the global
C29_Witness ==
    /\ \A t \in {0, 1, 2} : Got(t) = [instance |-> 1]
    /\ container.threads[3].pc = "check"
    /\ Len(Built) = 1
    /\ Built[1].engine_max_iterations = 3

\* C27 as stated: _calculate_confidence returns 0.0 for an empty source list and
\* otherwise a value that does not depend on the order of the sources and lies
\* between the lowest and the highest score of the input (the exact-mean part
\* of the statement is left out: what remains already fails).
ConfidenceDone == fn.op = "confidence"
GivenScores == {Scores[fn.scores[i]] : i \in 1..Len(fn.scores)}
Lowest == CHOOSE x \in GivenScores : \A y \in GivenScores : ~float_less(y, x)
Highest == CHOOSE x \in GivenScores : \A y \in GivenScores : ~float_less(x, y)
SwapFirstTwo(list) ==
  IF Len(list) < 2 THEN list ELSE <<list[2], list[1]>> \o SubSeq(list, 3, Len(list))
Rotate(list) == IF list = <<>> THEN list ELSE Tail(list) \o <<Head(list)>>
\* every list is a state, and the swap and the rotation generate all the
\* reorderings, so agreeing with both in every state is order independence
OrderIndependent ==
  /\ fn.confidence = _calculate_confidence(SourcesOf(SwapFirstTwo(fn.scores)), fn.python)
  /\ fn.confidence = _calculate_confidence(SourcesOf(Rotate(fn.scores)), fn.python)
HighestIndices ==
  CHOOSE I \in SUBSET (1..Len(fn.scores)) :
    /\ Cardinality(I) = IF Len(fn.scores) < 3 THEN Len(fn.scores) ELSE 3
    /\ \A i \in I, j \in (1..Len(fn.scores)) \ I :
         ~float_less(Scores[fn.scores[i]], Scores[fn.scores[j]])
RECURSIVE ExactSum(_)
ExactSum(I) ==
  IF I = {} THEN <<>>
  ELSE LET i == CHOOSE i \in I : TRUE
       IN  BAdd(Scores[fn.scores[i]].mag, ExactSum(I \ {i}))
Gap(a, b) == IF BLess(a, b) THEN BSub(b, a) ELSE BSub(a, b)
\* |a - b| <= 2^-51 * b
Within(a, b) == ~BLess(b, BShl(Gap(a, b), 51))
C31_WithinLimit ==
    max_iterations >= 1 =>
        /\ HasState => state.iteration <= max_iterations
        /\ pc = "returned" => result.iterations <= max_iterations

\* a run with max_iterations = 1 whose evaluator asked for another pass and
\* which returned after the one pass the limit allows
C31_Witness ==
    /\ max_iterations = 1
    /\ pc = "returned"
    /\ inputs.evals = <<EvalReplyFalse>>
    /\ result.iterations = 1


(***************************************************************************)
(* C32                                                                     *)
(***************************************************************************)
\* C32: in every completed run the language model was invoked exactly
\* 2 + iterations times (the router once, the evaluator once per pass, the
\* pass at which the limit forces "respond" included, the synthesizer once),
\* and messages holds exactly these replies in call order, the router's
\* first and the synthesizer's last.
RunCompleted == pc \in {"END", "returned"}
RepliesInCallOrder == inputs.router \o inputs.evals \o inputs.answer
C32_LLMCalls ==
    RunCompleted =>
        /\ llmCalls = 2 + state.iteration
        /\ Len(inputs.router) = 1
        /\ Len(inputs.evals) = state.iteration
        /\ Len(inputs.answer) = 1
        /\ state.messages = RepliesInCallOrder
        /\ state.messages[1] = inputs.router[1]
        /\ state.messages[Len(state.messages)] = inputs.answer[1]
        /\ pc = "returned" => llmCalls = 2 + result.iterations

\* a returned run of two passes, the second one cut short by the limit
C32_Witness ==
    /\ pc = "returned"
    /\ max_iterations = 2
    /\ inputs.evals = <<EvalReplyOnlyTrue, EvalReplyFalse>>
    /\ llmCalls = 4
    /\ Len(state.messages) = 4


(***************************************************************************)
(* C36                                                                     *)
(***************************************************************************)
\* C36: when RAGService.query fails after the query record was saved, the
\* error is raised to the caller and the record stays in the repository: no
\* step ever removes a saved record, get_query_by_id returns it and
\* get_recent_queries lists it.
FailedAfterSave ==
    /\ svc.endpoint = "query"
    /\ svc.call.saves = 1
    /\ svc.call.raised # "none"
RecordKept ==
    /\ svc.saved # <<>>
    /\ svc.saved[Len(svc.saved)] = svc.request.query
    /\ get_by_id(svc.saved, Len(svc.saved)) = <<svc.request.query>>
    /\ \A limit \in 1..3 :
          Head(get_recent_queries(svc.saved, limit)) = svc.request.query
LookedUp ==
    /\ svc.endpoint = "get_query"
    /\ svc.pc = "responded"
    /\ svc.call.raised = "none"
    /\ svc.request.query_id \in 1..Len(svc.saved)
C36_NoRollback ==
    /\ [](FailedAfterSave =>
             /\ svc.pc \in {"raised", "responded"}
             /\ svc.call.returned = NoResult
             /\ svc.pc = "responded" => svc.call.http.status = 500
             /\ RecordKept)
    /\ [](LookedUp => /\ svc.call.http.status = 200
                      /\ svc.call.http.body = svc.saved[svc.request.query_id])
    /\ [][IsPrefix(svc.saved, svc.saved')]_vars

\* the record of a query that failed is fetched by the request that follows
C36_Witness ==
    /\ LookedUp
    /\ svc.previous = <<"query", 500>>
    /\ svc.request.query_id = Len(svc.saved)
    /\ svc.call.http.status = 200


(***************************************************************************)
(* C37                                                                     *)
(***************************************************************************)
\* C37 as stated: when enabled, get_context includes the longest prefix of
\* the documents whose summed token estimates (content length // 4 each) do
\* not exceed max_tokens, estimated_tokens <= max_tokens always holds and
\* included_documents is the length of that prefix; when disabled the
\* context is empty.
ContextReturned == fn.op = "get_context"
TokensOf(doc) == IF "content" \in DOMAIN doc THEN Len(doc.content) \div 4 ELSE 0
RECURSIVE PrefixTokens(_)
PrefixTokens(k) == IF k = 0 THEN 0 ELSE PrefixTokens(k - 1) + TokensOf(fn.documents[k])
FittingPrefixes == {k \in 0..Len(fn.documents) : PrefixTokens(k) <= fn.max_tokens}
LongestFitting == CHOOSE k \in FittingPrefixes : \A j \in FittingPrefixes : j <= k
SameDocument(entry, doc) ==
    /\ entry.id = doc.id
    /\ "content" \in DOMAIN doc => entry.content = doc.content
IncludesPrefix(k) ==
    /\ Len(fn.context.context_documents) = k
    /\ \A i \in 1..k : SameDocument(fn.context.context_documents[i], fn.documents[i])
    /\ fn.context.metadata.included_documents = k
    /\ fn.context.metadata.estimated_tokens = PrefixTokens(k)
DisabledEmpty ==
    /\ fn.context.context_documents = <<>>
    /\ fn.context.metadata = [enabled |-> FALSE]
C37_Original ==
    ContextReturned =>
        IF fn.enabled
        THEN /\ fn.context.metadata.estimated_tokens <= fn.max_tokens
             /\ FittingPrefixes # {}
             /\ IncludesPrefix(LongestFitting)
        ELSE DisabledEmpty

\* C37 (amended): the same for max_tokens >= 0; with a negative max_tokens,
\* which is accepted, nothing is included and estimated_tokens is 0, above
\* max_tokens.
C37_TokenBudget ==
    ContextReturned =>
        IF ~fn.enabled THEN DisabledEmpty
        ELSE IF fn.max_tokens >= 0
        THEN /\ fn.context.metadata.estimated_tokens <= fn.max_tokens
             /\ IncludesPrefix(LongestFitting)
             /\ fn.context.metadata.total_documents = Len(fn.documents)
        ELSE /\ IncludesPrefix(0)
             /\ fn.context.metadata.estimated_tokens > fn.max_tokens

\* the loop stopped at a document that does not fit and left out a later,
\* smaller one that would have fitted
C37_Witness ==
    /\ ContextReturned
    /\ fn.enabled
    /\ fn.max_tokens >= 0
    /\ fn.context.metadata.included_documents >= 1
    /\ \E j \in 1..Len(fn.documents) :
          /\ j > fn.context.metadata.included_documents + 1
          /\ TokensOf(fn.documents[j]) >= 1
          /\ fn.context.metadata.estimated_tokens + TokensOf(fn.documents[j])
                <= fn.max_tokens


(***************************************************************************)
(* C33                                                                     *)
(***************************************************************************)
\* C33: when process_document finishes for a document that exists, the
\* document is COMPLETED or FAILED and not left at PROCESSING.  On return
\* the document and the job are COMPLETED and total_chunks and
\* processed_chunks are the number of chunks stored; on a failure after the
\* job was created both are FAILED with the error message recorded and the
\* error that occurred is the one raised.
ProcessFinished == indexing.call.pc \in {"returned", "raised"}
DocumentExisted == indexing.call.document \notin {Unbound, None}
ProcessedDocument == indexing.objects[indexing.call.document_id]
ProcessFinishes ==
    /\ indexing'.call.pc \in {"returned", "raised"}
    /\ indexing'.call # indexing.call
    /\ indexing'.call.document \notin {Unbound, None}
JobOfCall(ix) == ix.jobs[ix.call.saved_job.ref]
StoredBy(d) == indexing'.points[d] - indexing.points[d]
ProcessingErrors == ParseFailures \cup EmbeddingFailures \cup {"Exception"}
C33_FinalStatus ==
    /\ [](ProcessFinished /\ DocumentExisted =>
             ProcessedDocument.status \in {"completed", "failed"})
    /\ [][ProcessFinishes =>
             LET d   == indexing'.call.document_id
                 doc == indexing'.objects[d]
             IN /\ d \in indexing'.held
                /\ indexing'.call.pc = "returned" =>
                      /\ doc.status = "completed"
                      /\ indexing'.call.saved_job = indexing'.call.returned
                      /\ JobOfCall(indexing').status = "completed"
                      /\ JobOfCall(indexing').total_chunks = StoredBy(d)
                      /\ JobOfCall(indexing').processed_chunks = StoredBy(d)
                      /\ StoredBy(d) >= 1
                /\ indexing'.call.pc = "raised"
                     /\ Len(indexing'.jobs) > indexing'.call.jobs_before =>
                      /\ doc.status = "failed"
                      /\ JobOfCall(indexing').status = "failed"
                      /\ indexing'.call.raised \in ProcessingErrors
                      /\ doc.error_message = indexing'.call.raised
                      /\ JobOfCall(indexing').error_message = indexing'.call.raised
                      /\ StoredBy(d) = 0]_vars

\* the second embedding of two failed: document and job are FAILED
C33_Witness ==
    /\ indexing.call.pc = "raised"
    /\ indexing.call.raised = "EmbeddingError"
    /\ indexing.call.text_chunks = 2
    /\ indexing.call.chunks = 1
    /\ ProcessedDocument.status = "failed"
    /\ indexing.jobs[indexing.call.saved_job.ref].status = "failed"

(***************************************************************************)
(* C34                                                                     *)
(***************************************************************************)
\* C34: process_document called with an id the document repository does not
\* hold raises the "not found" ValueError to its caller, creates no indexing
\* job and modifies no document record.
NotFoundFinishes ==
    /\ indexing'.call # indexing.call
    /\ indexing'.call.document = None
C34_NotFound ==
    [][NotFoundFinishes =>
          /\ indexing'.call.pc = "raised"
          /\ indexing'.call.raised = "ValueError"
          /\ indexing'.jobs = indexing.jobs
          /\ indexing'.objects = indexing.objects
          /\ indexing'.held = indexing.held]_vars

(***************************************************************************)
(* C35                                                                     *)
(***************************************************************************)
\* C35: delete_document does not raise; when it returns True neither the
\* document record nor any chunk of the document remains in the vector
\* store; it returns False when the record did not exist, so a second delete
\* of the same id returns False.
DeleteReturns == indexing'.deleted.count = indexing.deleted.count + 1
C35_DeleteRemoves ==
    [][DeleteReturns =>
          LET d == indexing'.deleted.document_id
          IN /\ indexing'.deleted.raised = "none"
             /\ indexing'.deleted.returned =>
                   /\ d \notin indexing'.held
                   /\ d \in 1..Len(indexing'.points) => indexing'.points[d] = 0
             /\ d \notin indexing.held => ~indexing'.deleted.returned]_vars

====
